---- MODULE Spec2Model ----
(***************************************************************************)
(* Model of the Aiden SDK core: the error classifier (errors.ts), the      *)
(* HTTP transport engine (http.ts, class HttpClient), the SSE streaming    *)
(* parser / consumer (streaming.ts, class AidenStream) and the resource    *)
(* wrappers over the engine (resources/base.ts, documents.upload).         *)
(*                                                                         *)
(* JavaScript values are represented as follows.                           *)
(*   - an optional value is a sequence of length 0 (undefined) or 1;       *)
(*   - a header bag is a function from header names to strings;            *)
(*   - a thrown or returned value is a completion record                   *)
(*     [type |-> "return" | "throw", value |-> ...];                       *)
(*   - an error object is a record carrying its class name and fields.     *)
(***************************************************************************)
EXTENDS Integers, Sequences, FiniteSets, TLC

VARIABLES
  clsIn,        \* classifier harness: the arguments of createErrorFromResponse
  clsOut,       \* classifier harness: its completion, once called
  config,       \* HttpClient: the AidenClientConfig given to the constructor
  entry,        \* which public operation the caller invokes
  options,      \* the RequestOptions part of the HttpRequestOptions
  pc,           \* position of the call: idle, loop, json, done
  headers,      \* requestRaw: const headers
  timeout,      \* requestRaw: const timeout
  attempt,      \* requestRaw: loop variable
  lastError,    \* requestRaw: let lastError
  response,     \* the Response requestRaw returned to request/requestPaginated
  result,       \* completion of the public operation, once finished
  calls,        \* number of invocations of the transport function fetchFn
  sent,         \* headers handed to fetchFn on its last invocation
  nSleeps,      \* number of calls of sleep()
  lastSleep,    \* argument of the last call of sleep()
  seen,         \* statuses / failure tags the transport produced so far
  lastTag,      \* status / failure tag of the transport's last outcome
  script,       \* the SSE records the server writes to the response body
  rbody,         \* response.body: present or null, bytes not yet read, reader lock
  consumed,     \* AidenStream.consumed
  cons,         \* the consumption calls made on the stream, one record each
  urlIn,        \* config.baseUrl and the path and query of the request
  urlOut,       \* requestRaw: const url, the completion of buildUrl once called
  sentTo,       \* URL handed to fetchFn on its last invocation
  res           \* resource layer: the call of a wrapper method of BaseResource

clsVars == <<clsIn, clsOut>>
httpVars == <<config, entry, options, pc, headers, timeout, attempt, lastError,
              response, result, calls, sent, nSleeps, lastSleep, seen, lastTag>>
streamVars == <<script, rbody, consumed, cons>>
urlVars == <<urlIn, urlOut, sentTo>>
vars == <<clsVars, httpVars, streamVars, urlVars, res>>

----------------------------------------------------------------------------
(* Optional values, completions *)

Undefined == <<>>
Some(v) == <<v>>
IsDefined(o) == o # <<>>
Get(o) == o[1]
\* JavaScript: o ?? d
OrElse(o, d) == IF o = <<>> THEN d ELSE o[1]

Return(v) == [type |-> "return", value |-> v]
Throw(e) == [type |-> "throw", value |-> e]

Min(a, b) == IF a <= b THEN a ELSE b

\* all sequences of at most n elements of S
SeqUpTo(S, n) == UNION { [1..k -> S] : k \in 0..n }

RECURSIVE Pow2(_)
Pow2(n) == IF n <= 0 THEN 1 ELSE 2 * Pow2(n - 1)

----------------------------------------------------------------------------
(* Bounds of the model *)

\* largest maxRetries a client is configured with in the retry harness
MaxRetries == 2
\* largest maxRetries a client is configured with in the header harness
HdrMaxRetries == 1
\* most pages a list endpoint reports
MaxPages == 3
\* most items of a page
MaxItems == 2

----------------------------------------------------------------------------
(* errors.ts: the error hierarchy *)

\* class AidenError and its subclasses: every field the constructors set
ErrorObject(name, message, code, status, requestId, retryAfter, timeoutMs) ==
  [name |-> name, message |-> message, code |-> code, status |-> status,
   requestId |-> requestId, retryAfter |-> retryAfter, timeoutMs |-> timeoutMs]

\* errors that are not part of the SDK hierarchy (TypeError, SyntaxError,
\* DOMException, Error): they have no code, status or requestId
RawError(name, message) ==
  ErrorObject(name, Some(message), Undefined, Undefined, Undefined, Undefined, Undefined)

\* error instanceof AidenError
AidenErrorNames ==
  {"AidenError", "ValidationError", "AuthenticationError", "ForbiddenError",
   "NotFoundError", "ConflictError", "UnprocessableEntityError", "RateLimitError",
   "InternalError", "BadGatewayError", "ServiceUnavailableError",
   "GatewayTimeoutError", "ConnectionError", "TimeoutError"}

InstanceOfAidenError(e) == e.name \in AidenErrorNames

ConnectionError(message) ==
  ErrorObject("ConnectionError", Some(message), Some("CONNECTION_ERROR"), Some(0),
              Some("unknown"), Undefined, Undefined)

TimeoutError(message, timeoutMs) ==
  ErrorObject("TimeoutError", Some(message), Some("TIMEOUT"), Some(0),
              Some("unknown"), Undefined, Some(timeoutMs))

\* retryAfterMs ?? 60000 in the 429 case
DefaultRetryAfter == 60000

\* A parsed body is a JSON value.  kind: "object" or "null" (JSON null);
\* error: how the member `error` looks ("absent", "null", "string", "object");
\* code, message: members of an object-valued `error`; meta: "absent" or
\* "present"; requestId: meta.requestId; data: the number of items of the
\* member `data` when it is an array; pagination: meta.pagination.totalPages
\* when meta has a pagination.
JsonBody(kind, error, code, message, meta, requestId) ==
  [kind |-> kind, error |-> error, code |-> code, message |-> message,
   meta |-> meta, requestId |-> requestId, data |-> Undefined, pagination |-> Undefined]

\* the destructuring `const { code, message, details } = body.error` throws
\* a TypeError when body is null or body.error is undefined or null
DestructureThrows(body) ==
  body.kind = "null" \/ body.error \in {"absent", "null"}

\* the error the switch of createErrorFromResponse builds, once the
\* destructuring has succeeded.  The constructors pass message to
\* super(message): an undefined message gives an Error whose message is the
\* empty string.
Classified(status, body, retryAfterMs) ==
  LET code == IF body.error = "object" THEN body.code ELSE Undefined
      message == Some(IF body.error = "object" THEN OrElse(body.message, "") ELSE "")
      requestId == Some(IF body.meta = "present" THEN OrElse(body.requestId, "unknown")
                        ELSE "unknown")
      E(name, c, st, ra) == ErrorObject(name, message, c, Some(st), requestId, ra, Undefined)
  IN CASE status = 400 -> E("ValidationError", code, 400, Undefined)
       [] status = 401 -> E("AuthenticationError", code, 401, Undefined)
       [] status = 403 -> E("ForbiddenError", code, 403, Undefined)
       [] status = 404 -> E("NotFoundError", code, 404, Undefined)
       [] status = 409 -> E("ConflictError", code, 409, Undefined)
       [] status = 422 -> E("UnprocessableEntityError", code, 422, Undefined)
       [] status = 429 -> E("RateLimitError", Some("RATE_LIMITED"), 429,
                            Some(OrElse(retryAfterMs, DefaultRetryAfter)))
       [] status = 500 -> E("InternalError", Some("INTERNAL_ERROR"), 500, Undefined)
       [] status = 502 -> E("BadGatewayError", Some("BAD_GATEWAY"), 502, Undefined)
       [] status = 503 -> E("ServiceUnavailableError", Some("SERVICE_UNAVAILABLE"), 503, Undefined)
       [] status = 504 -> E("GatewayTimeoutError", Some("GATEWAY_TIMEOUT"), 504, Undefined)
       [] OTHER -> E("AidenError", code, status, Undefined)

\* createErrorFromResponse(status, body, retryAfterMs): its completion
createErrorFromResponse(status, body, retryAfterMs) ==
  IF DestructureThrows(body)
  THEN Throw(RawError("TypeError", "Cannot destructure property 'code' of 'body.error'"))
  ELSE Return(Classified(status, body, retryAfterMs))

----------------------------------------------------------------------------
(* http.ts: what the transport function can produce *)

\* A retry-after header: absent, the empty string, an integer count of
\* seconds (n), an HTTP date lying n ms after now, or other text
Header(t, n) == [t |-> t, n |-> n]
NoHeader == Header("absent", 0)

\* One outcome of fetchFn: a Response (status, the JSON value its body
\* holds or Undefined when the body is not JSON, its retry-after and
\* x-request-id headers) or a rejection (exc: the error thrown)
Resp(status, json, retryAfter, xRequestId) ==
  [t |-> "response", status |-> status, json |-> json, retryAfter |-> retryAfter,
   xRequestId |-> xRequestId, exc |-> Undefined]
Reject(e) ==
  [t |-> "reject", status |-> 0, json |-> Undefined, retryAfter |-> NoHeader,
   xRequestId |-> Undefined, exc |-> Some(e)]

\* the ways a fetch implementation rejects
FetchFailed == RawError("TypeError", "fetch failed")
\* the DOMException of an aborted fetch: its legacy code is ABORT_ERR (20)
Aborted ==
  ErrorObject("AbortError", Some("This operation was aborted"), Some(20), Undefined,
              Undefined, Undefined, Undefined)
OtherFailure == RawError("Error", "socket hang up")

\* the error envelope the API documents, for a status
Envelope(code) == JsonBody("object", "object", Some(code), Some("msg"), "present", Some("req-1"))
\* other JSON values a server or a proxy in front of it answers with
ErrorBodies ==
  { Envelope("API_CODE"),
    JsonBody("object", "object", Some("API_CODE"), Some("msg"), "absent", Undefined),
    JsonBody("object", "object", Undefined, Undefined, "present", Undefined),
    JsonBody("object", "string", Undefined, Undefined, "present", Some("req-1")),
    JsonBody("object", "absent", Undefined, Undefined, "absent", Undefined),
    JsonBody("null", "absent", Undefined, Undefined, "absent", Undefined) }

RetryAfterHeaders ==
  { NoHeader, Header("empty", 0), Header("int", 1), Header("int", -5),
    Header("date", 5000), Header("date", -5000), Header("text", 0) }

ErrorStatuses == {404, 418, 429, 500}

\* the bodies the transport answers with in the retry harness: the envelope,
\* the JSON object {} and the JSON value null
TransportBodies ==
  { Envelope("API_CODE"),
    JsonBody("object", "absent", Undefined, Undefined, "absent", Undefined),
    JsonBody("null", "absent", Undefined, Undefined, "absent", Undefined) }

Responses ==
     { Resp(200, Some(Envelope("OK")), NoHeader, Undefined),
       Resp(200, Undefined, NoHeader, Undefined),
       Resp(204, Undefined, NoHeader, Undefined) }
  \cup { Resp(s, Some(b), NoHeader, Undefined) : s \in ErrorStatuses, b \in TransportBodies }
  \cup { Resp(s, Undefined, NoHeader, Some("hdr-1")) : s \in ErrorStatuses }
  \cup { Resp(429, Some(Envelope("API_CODE")), h, Undefined) : h \in RetryAfterHeaders }

Outcomes == Responses \cup { Reject(FetchFailed), Reject(Aborted), Reject(OtherFailure) }

\* what the transport produces for a page request of a list endpoint: a
\* PaginatedResponse of at most MaxItems items, its meta absent, without
\* pagination or reporting at most MaxPages pages; a success without data
\* and one whose body is null; an error the engine throws, one it retries,
\* and a rejection
ListOutcomes ==
  LET Page(n, meta, pagination) ==
        [JsonBody("object", "absent", Undefined, Undefined, meta,
                  IF meta = "present" THEN Some("req-1") ELSE Undefined)
           EXCEPT !.data = Some(n), !.pagination = pagination]
  IN { Resp(200, Some(Page(n, "present", p)), NoHeader, Undefined) :
         n \in 0..MaxItems, p \in {Undefined} \cup { Some(t) : t \in 0..MaxPages } }
     \cup { Resp(200, Some(Page(n, "absent", Undefined)), NoHeader, Undefined) :
              n \in 0..MaxItems }
     \cup { Resp(200, Some(Envelope("OK")), NoHeader, Undefined),
            Resp(200, Some(JsonBody("null", "absent", Undefined, Undefined, "absent", Undefined)),
                 NoHeader, Undefined),
            Resp(404, Some(Envelope("API_CODE")), NoHeader, Undefined),
            Resp(500, Some(Envelope("API_CODE")), NoHeader, Undefined),
            Reject(FetchFailed) }

\* Math.random() * 500, sampled
Jitters == {0, 499}

\* the tag under which an outcome is remembered in `seen`
Tag(o) == IF o.t = "response" THEN o.status ELSE
          IF Get(o.exc).name = "AbortError" THEN -1 ELSE -2

----------------------------------------------------------------------------
(* http.ts: class HttpClient *)

\* constructor: config.timeout ?? 30_000
DefaultTimeout == 30000
\* constructor: config.maxRetries ?? 3
DefaultMaxRetries == 3
\* calculateBackoff: cap of one backoff
BackoffCap == 30000

\* constructor: this.defaultTimeout, this.maxRetries
defaultTimeout(cfg) == OrElse(cfg.timeout, DefaultTimeout)
maxRetries(cfg) == OrElse(cfg.maxRetries, DefaultMaxRetries)

\* Object.assign(target, source) on header bags
Assign(target, source) ==
  [n \in DOMAIN target \cup DOMAIN source |->
     IF n \in DOMAIN source THEN source[n] ELSE target[n]]

\* truthiness of an optional string
Truthy(o) == IsDefined(o) /\ Get(o) # ""

\* buildHeaders with the scheme missing from the Authorization value
buildHeadersNoScheme(cfg, opts) ==
  LET base == ("Content-Type" :> "application/json") @@ ("Accept" :> "application/json")
              @@ ("Authorization" :> cfg.apiKey)
      userId == IF IsDefined(opts.userId) THEN opts.userId ELSE cfg.userId
      withUser == IF Truthy(userId) THEN Assign(base, "X-User-ID" :> Get(userId)) ELSE base
  IN IF IsDefined(opts.headers) THEN Assign(withUser, Get(opts.headers)) ELSE withUser

\* buildHeaders(options)
buildHeaders(cfg, opts) ==
  LET base == ("Content-Type" :> "application/json") @@ ("Accept" :> "application/json")
              @@ ("Authorization" :> ("Bearer " \o cfg.apiKey))
      userId == IF IsDefined(opts.userId) THEN opts.userId ELSE cfg.userId
      withUser == IF Truthy(userId) THEN Assign(base, "X-User-ID" :> Get(userId)) ELSE base
  IN IF IsDefined(opts.headers) THEN Assign(withUser, Get(opts.headers)) ELSE withUser

\* safeParseJson(response): response.json(), or the synthesized envelope
\* when the body is not JSON
safeParseJson(r) ==
  IF IsDefined(r.json) THEN Get(r.json)
  ELSE JsonBody("object", "object", Some("UNKNOWN_ERROR"), Some("HTTP status"),
                "present", Some(OrElse(r.xRequestId, "unknown")))

\* parseRetryAfter(response), in milliseconds
parseRetryAfter(r) ==
  LET h == r.retryAfter
  IN IF h.t \in {"absent", "empty"} THEN DefaultRetryAfter
     ELSE IF h.t = "int" THEN h.n * 1000
     ELSE IF h.t = "date" THEN (IF h.n >= 0 THEN h.n ELSE 0)
     ELSE DefaultRetryAfter

\* calculateBackoff(attempt), jitter being Math.random() * 500
calculateBackoff(att, jitter) == Min(Pow2(att) * 1000 + jitter, BackoffCap)

\* response.ok
Ok(r) == r.status >= 200 /\ r.status <= 299

\* the loop condition of requestRaw, off by one
LoopGuardOffByOne(att, cfg) == att <= maxRetries(cfg) + 1

\* the loop condition of requestRaw: attempt <= this.maxRetries
LoopGuard(att, cfg) == att <= maxRetries(cfg)

\* the two retry conditions of the try block: 429 or 5xx with attempts left
Retryable(att, cfg, status) ==
  (status = 429 \/ status >= 500) /\ att < maxRetries(cfg)

\* What one pass through the try block does with the transport's outcome o.
\* ctl: how the block is left; value: what is returned or thrown;
\* assign: the value assigned to lastError, if any; sleeps: the arguments
\* of the sleep() calls made, in order.
TryBlock(att, cfg, o, jitter) ==
  IF o.t = "reject"
  THEN [ctl |-> "throw", value |-> Get(o.exc), assign |-> Undefined, sleeps |-> <<>>]
  ELSE IF Ok(o) \/ o.status = 204
  THEN [ctl |-> "return", value |-> o, assign |-> Undefined, sleeps |-> <<>>]
  ELSE
    LET errorBody == safeParseJson(o)
    IN IF Retryable(att, cfg, o.status)
       THEN LET retryAfterMs == parseRetryAfter(o)
                backoff == IF o.status = 429
                           THEN Min(retryAfterMs, calculateBackoff(att, jitter))
                           ELSE calculateBackoff(att, jitter)
                c == createErrorFromResponse(o.status, errorBody,
                        IF o.status = 429 THEN Some(retryAfterMs) ELSE Undefined)
            IN IF c.type = "throw"
               THEN [ctl |-> "throw", value |-> c.value, assign |-> Undefined,
                     sleeps |-> <<backoff>>]
               ELSE [ctl |-> "continue", value |-> c.value, assign |-> Some(c.value),
                     sleeps |-> <<backoff>>]
       ELSE LET c == createErrorFromResponse(o.status, errorBody,
                        IF o.status = 429 THEN Some(parseRetryAfter(o)) ELSE Undefined)
            IN [ctl |-> "throw", value |-> c.value, assign |-> Undefined, sleeps |-> <<>>]

\* the test for an abort in the catch block, never met
IsAbortNever(error) == FALSE

\* error instanceof DOMException && error.name === 'AbortError'
IsAbort(error) == error.name = "AbortError"

\* the test before the sleep of the catch block, always met
AttemptsLeftAlways(att, cfg) == TRUE

\* if (attempt < this.maxRetries), before the sleep of the catch block
AttemptsLeft(att, cfg) == att < maxRetries(cfg)

\* What the catch block does with the error the try block threw.
\* ctl "fallthrough": the block ends without continue; the loop goes on to
\* its increment.
CatchBlock(att, cfg, t, tmo, jitter) ==
  LET error == t.value
  IN IF InstanceOfAidenError(error)
     THEN [ctl |-> "throw", value |-> error, assign |-> Undefined, sleeps |-> t.sleeps]
     ELSE IF IsAbort(error)
     THEN [ctl |-> "throw", value |-> TimeoutError("Request timed out", tmo),
           assign |-> Undefined, sleeps |-> t.sleeps]
     ELSE
       LET le == IF error.name = "TypeError" /\ error.message = Some("fetch failed")
                 THEN ConnectionError("Failed to connect")
                 ELSE ConnectionError("Request failed")
       IN IF AttemptsLeft(att, cfg)
          THEN [ctl |-> "continue", value |-> le, assign |-> Some(le),
                sleeps |-> Append(t.sleeps, calculateBackoff(att, jitter))]
          ELSE [ctl |-> "fallthrough", value |-> le, assign |-> Some(le),
                sleeps |-> t.sleeps]

\* one iteration of the retry loop of requestRaw
Iteration(att, cfg, o, tmo, j1, j2) ==
  LET t == TryBlock(att, cfg, o, j1)
  IN IF t.ctl = "throw" THEN CatchBlock(att, cfg, t, tmo, j2) ELSE t

\* after the loop: throw lastError ?? new ConnectionError(...)
AfterLoop(le) == Throw(OrElse(le, ConnectionError("Request failed after all retries")))

\* request / requestPaginated, second line: await response.json()
ResponseJson(r) ==
  IF IsDefined(r.json) THEN Return(Get(r.json))
  ELSE Throw(RawError("SyntaxError", "Unexpected end of JSON input"))

----------------------------------------------------------------------------
(* http.ts: buildUrl *)

\* most entries of a query object in the buildUrl harness
MaxQuery == 2

\* a value of a query entry: undefined, null, a number (n), a boolean (b) or
\* a string (s)
QueryValue(t, n, b, s) == [t |-> t, n |-> n, b |-> b, s |-> s]

\* the decimal digits of a natural number
RECURSIVE Decimal(_)
Decimal(n) ==
  LET digit == <<"0", "1", "2", "3", "4", "5", "6", "7", "8", "9">>[(n % 10) + 1]
  IN IF n < 10 THEN digit ELSE Decimal(n \div 10) \o digit

\* String(value) for a value that is neither undefined nor null
StringOf(value) ==
  CASE value.t = "number" -> Decimal(value.n)
    [] value.t = "boolean" -> IF value.b THEN "true" ELSE "false"
    [] value.t = "string" -> value.s

\* how the serializer of URLSearchParams writes a string of the model
FormEncode(str) ==
  CASE str = "a b" -> "a+b"
    [] str = "a&b" -> "a%26b"
    [] OTHER -> str

\* url.searchParams.set(key, value): the first pair of that name gets the
\* value and the others go; without one the pair is appended
SetParam(params, key, value) ==
  IF \E i \in 1..Len(params) : params[i][1] = key
  THEN LET first == CHOOSE i \in 1..Len(params) :
                      params[i][1] = key /\ \A k \in 1..(i - 1) : params[k][1] # key
           others == SelectSeq(SubSeq(params, first + 1, Len(params)),
                               LAMBDA q : q[1] # key)
       IN SubSeq(params, 1, first - 1) \o << <<key, value>> >> \o others
  ELSE Append(params, <<key, value>>)

\* the test of buildUrl on a query value, made a test of truthiness
IsSetLoose(value) ==
  CASE value.t = "number" -> value.n # 0
    [] value.t = "boolean" -> value.b
    [] value.t = "string" -> value.s # ""
    [] OTHER -> FALSE

\* value !== undefined && value !== null
IsSet(value) == value.t \notin {"undefined", "null"}

\* buildUrl, the loop over Object.entries(query)
RECURSIVE SetAll(_, _)
SetAll(params, entries) ==
  IF entries = <<>> THEN params
  ELSE LET e == Head(entries)
       IN SetAll(IF IsSet(e.value) THEN SetParam(params, e.key, StringOf(e.value))
                 ELSE params,
                 Tail(entries))

\* buildUrl(path, query).  The base URL is a text followed by a number of
\* slashes; the path is a path with or without its leading slash.  new URL
\* wants an absolute URL: of the base URLs of the model "https://api.test.com"
\* opens with a scheme, "" and "not a url" do not, and with them the
\* constructor throws a TypeError.  The URL built is the origin, the path and
\* the pairs of its query string, each value as the serializer writes it.
buildUrl(baseUrl, path, query) ==
  LET base == baseUrl.origin
      cleanPath == "/" \o path.rest
      absolute == base \in {"https://api.test.com"}
      params == IF IsDefined(query) THEN SetAll(<<>>, Get(query)) ELSE <<>>
  IN IF ~absolute
     THEN Throw(ErrorObject("TypeError", Some("Invalid URL"), Some("ERR_INVALID_URL"),
                            Undefined, Undefined, Undefined, Undefined))
     ELSE Return([href |-> base \o cleanPath,
                  search |-> [i \in 1..Len(params) |->
                                <<params[i][1], FormEncode(params[i][2])>>]])

----------------------------------------------------------------------------
(* Harness of buildUrl: one call *)

\* the query objects: entries of distinct keys, in insertion order
Queries ==
  LET keys == {"page", "limit", "search"}
      values ==
        { QueryValue("undefined", 0, FALSE, ""), QueryValue("null", 0, FALSE, ""),
          QueryValue("number", 1, FALSE, ""), QueryValue("number", 10, FALSE, ""),
          QueryValue("number", 0, FALSE, ""), QueryValue("boolean", 0, FALSE, ""),
          QueryValue("string", 0, FALSE, "test"), QueryValue("string", 0, FALSE, ""),
          QueryValue("string", 0, FALSE, "a b") }
  IN { q \in SeqUpTo([key : keys, value : values], MaxQuery) :
         \A i, k \in 1..Len(q) : i # k => q[i].key # q[k].key }

UrlInputs ==
  [baseUrl : [origin : {"https://api.test.com", "", "not a url"}, slashes : {0, 1}],
   path : [lead : BOOLEAN, rest : {"api/v1/notebooks"}],
   query : {Undefined} \cup { Some(q) : q \in Queries }]

UrlIdle ==
  /\ urlIn = [baseUrl |-> [origin |-> "https://api.test.com", slashes |-> 0],
              path |-> [lead |-> TRUE, rest |-> "test"], query |-> Undefined]
  /\ urlOut = Undefined
  /\ sentTo = Undefined

BuildUrlCall ==
  /\ urlOut = Undefined
  /\ urlOut' = Some(buildUrl(urlIn.baseUrl, urlIn.path, urlIn.query))
  /\ UNCHANGED <<urlIn, sentTo, clsVars, httpVars, streamVars, res>>

----------------------------------------------------------------------------
(* Harness of the error classifier: one call of createErrorFromResponse *)

ClassifierStatuses == {302, 400, 401, 403, 404, 409, 418, 422, 429, 500, 502, 503, 504}

ClassifierInputs ==
  [status : ClassifierStatuses, body : ErrorBodies,
   retryAfterMs : {Undefined, Some(0), Some(1500)}]

ClsIdle == clsIn = [status |-> 400, body |-> Envelope("API_CODE"), retryAfterMs |-> Undefined]
           /\ clsOut = Undefined

ClassifyCall ==
  /\ clsOut = Undefined
  /\ clsOut' = Some(createErrorFromResponse(clsIn.status, clsIn.body, clsIn.retryAfterMs))
  /\ UNCHANGED <<clsIn, httpVars, streamVars, urlVars, res>>

----------------------------------------------------------------------------
(* One call of request, requestPaginated or requestRaw on one client *)

Entries == {"request", "requestPaginated", "requestRaw"}

Config(apiKey, userId, tmo, retries) ==
  [apiKey |-> apiKey, userId |-> userId, timeout |-> tmo, maxRetries |-> retries]

\* explicit: the members the object has with the value undefined, which a
\* spread copies like any other member
RequestOptions(userId, hdrs, tmo, signal) ==
  [userId |-> userId, headers |-> hdrs, timeout |-> tmo, signal |-> signal,
   explicit |-> {}]

HttpIdle(cfg, opts, e) ==
  /\ config = cfg
  /\ options = opts
  /\ entry = e
  /\ pc = "idle"
  /\ headers = <<>>
  /\ timeout = 0
  /\ attempt = 0
  /\ lastError = Undefined
  /\ response = Undefined
  /\ result = Undefined
  /\ calls = 0
  /\ sent = Undefined
  /\ nSleeps = 0
  /\ lastSleep = Undefined
  /\ seen = {}
  /\ lastTag = Undefined

\* requestRaw(options), up to the loop, for the request req (base URL, path
\* and query): a new call, whose URL, headers and timeout are fixed for the
\* call; an exception of buildUrl ends the call, and the call of request or
\* requestPaginated around it, before anything is sent
requestRaw(req, opts) ==
  LET url == buildUrl(req.baseUrl, req.path, req.query)
  IN /\ urlOut' = Some(url)
     /\ lastError' = Undefined
     /\ response' = Undefined
     /\ IF url.type = "throw"
        THEN /\ result' = Some(url)
             /\ pc' = "done"
             /\ UNCHANGED <<headers, timeout, attempt>>
        ELSE /\ headers' = buildHeaders(config, opts)
             /\ timeout' = OrElse(opts.timeout, defaultTimeout(config))
             /\ attempt' = 0
             /\ pc' = "loop"
             /\ result' = Undefined

\* request, requestPaginated or requestRaw is called
Call ==
  /\ pc = "idle"
  /\ requestRaw(urlIn, options)
  /\ UNCHANGED <<config, entry, options, calls, sent,
                 nSleeps, lastSleep, seen, lastTag, clsVars, streamVars, urlIn, sentTo, res>>

\* one iteration of the loop: fetchWithTimeout, then the try and catch
\* blocks; the transport answers a page request of _listAll as a list
\* endpoint does
Attempt ==
  /\ pc = "loop"
  /\ LoopGuard(attempt, config)
  /\ \E o \in (IF res.method = "_listAll" THEN ListOutcomes ELSE Outcomes),
        j1 \in Jitters, j2 \in Jitters :
       LET it == Iteration(attempt, config, o, timeout, j1, j2)
       IN /\ calls' = calls + 1
          /\ sent' = Some(headers)
          /\ sentTo' = Some(Get(urlOut).value)
          /\ seen' = seen \cup {Tag(o)}
          /\ lastTag' = Some(Tag(o))
          /\ nSleeps' = nSleeps + Len(it.sleeps)
          /\ lastSleep' = IF it.sleeps = <<>> THEN lastSleep
                          ELSE Some(it.sleeps[Len(it.sleeps)])
          /\ lastError' = IF IsDefined(it.assign) THEN it.assign ELSE lastError
          /\ CASE it.ctl = "return" ->
                    IF entry = "requestRaw"
                    THEN /\ pc' = "done"
                         /\ result' = Some(Return(o))
                         /\ UNCHANGED <<attempt, response>>
                    ELSE /\ pc' = "json"
                         /\ response' = Some(o)
                         /\ UNCHANGED <<attempt, result>>
               [] it.ctl = "throw" ->
                    /\ pc' = "done"
                    /\ result' = Some(Throw(it.value))
                    /\ UNCHANGED <<attempt, response>>
               [] OTHER ->
                    /\ attempt' = attempt + 1
                    /\ UNCHANGED <<pc, result, response>>
  /\ UNCHANGED <<config, entry, options, headers, timeout, clsVars, streamVars,
                 urlIn, urlOut, res>>

\* the loop condition fails: the statement after the loop
Exhausted ==
  /\ pc = "loop"
  /\ ~LoopGuard(attempt, config)
  /\ result' = Some(AfterLoop(lastError))
  /\ pc' = "done"
  /\ UNCHANGED <<config, entry, options, headers, timeout, attempt, lastError, response,
                 calls, sent, nSleeps, lastSleep, seen, lastTag, clsVars, streamVars, urlVars, res>>

\* request / requestPaginated: await response.json() and return the body
Unwrap ==
  /\ pc = "json"
  /\ result' = Some(ResponseJson(Get(response)))
  /\ pc' = "done"
  /\ UNCHANGED <<config, entry, options, headers, timeout, attempt, lastError, response,
                 calls, sent, nSleeps, lastSleep, seen, lastTag, clsVars, streamVars, urlVars, res>>

----------------------------------------------------------------------------
(* streaming.ts: text.  A string is a sequence of symbols.  The symbols   *)
(* "data:", "event:", "id:" stand for those field names with their colon,  *)
(* ":" for the colon that opens a comment line, SP and NL for a space and  *)
(* a line feed.  A symbol in braces, "null" and "true" each stand for the  *)
(* complete text of one JSON value (see JSONValue); "hi" and "usage" are   *)
(* words that are not JSON; "C3" and "A9" are the two bytes of the UTF-8   *)
(* encoding of one character, written "e'" once decoded.  A symbol t of    *)
(* several bytes reaches the code whole or as its first bytes, written     *)
(* t..., followed in a later chunk by its last bytes, written ...t (Cut).  *)

SP == " "
NL == "\n"

\* Date.now() at the moment an event is wrapped
DateNow == 5000

\* s.slice(n) for a count n of symbols
Slice(s, n) == SubSeq(s, n + 1, Len(s))

\* s.startsWith(prefix)
StartsWith(s, prefix) ==
  Len(s) >= Len(prefix) /\ SubSeq(s, 1, Len(prefix)) = prefix

RECURSIVE TrimStart(_)
TrimStart(s) ==
  IF s # <<>> /\ Head(s) \in {SP, NL} THEN TrimStart(Tail(s)) ELSE s

RECURSIVE TrimEnd(_)
TrimEnd(s) ==
  IF s # <<>> /\ s[Len(s)] \in {SP, NL} THEN TrimEnd(SubSeq(s, 1, Len(s) - 1)) ELSE s

\* s.trim()
Trim(s) == TrimEnd(TrimStart(s))

\* s.split('\n'), cur being the piece under construction
RECURSIVE SplitLines(_, _)
SplitLines(s, cur) ==
  IF s = <<>> THEN <<cur>>
  ELSE IF Head(s) = NL THEN <<cur>> \o SplitLines(Tail(s), <<>>)
  ELSE SplitLines(Tail(s), Append(cur, Head(s)))

\* s.split('\n\n'), cur being the piece under construction
RECURSIVE SplitBlocks(_, _)
SplitBlocks(s, cur) ==
  IF s = <<>> THEN <<cur>>
  ELSE IF Len(s) >= 2 /\ s[1] = NL /\ s[2] = NL
  THEN <<cur>> \o SplitBlocks(Slice(s, 2), <<>>)
  ELSE SplitBlocks(Tail(s), Append(cur, Head(s)))

\* the JavaScript string a sequence of symbols spells
RECURSIVE Spell(_)
Spell(s) == IF s = <<>> THEN "" ELSE Head(s) \o Spell(Tail(s))

\* TextDecoder.decode(chunk, {stream: true}): pending holds the bytes of an
\* incomplete character kept from the previous chunk; out is the text so far
RECURSIVE Decode(_, _, _)
Decode(pending, chunk, out) ==
  IF chunk = <<>> THEN [text |-> out, pending |-> pending]
  ELSE LET b == Head(chunk)
       IN IF pending # <<>>
          THEN IF b = "A9" THEN Decode(<<>>, Tail(chunk), Append(out, "e'"))
               ELSE Decode(<<>>, chunk, Append(out, "U+FFFD"))
          ELSE IF b = "C3" THEN Decode(<<b>>, Tail(chunk), out)
          ELSE IF b = "A9" THEN Decode(<<>>, Tail(chunk), Append(out, "U+FFFD"))
          ELSE Decode(<<>>, Tail(chunk), Append(out, b))

----------------------------------------------------------------------------
(* streaming.ts: JSON payloads and Stream Events *)

\* the value of the `data` member of an event, or a decoded payload used as
\* one: json names the value; content, sessionId, message are its members of
\* those names, where it has them
Data(json, content, sessionId, message) ==
  [json |-> json, content |-> content, sessionId |-> sessionId, message |-> message]

\* type PDCAPhase
PDCAPhase == {"plan", "do", "check", "act"}

\* type ThinkingEventVisibility
ThinkingEventVisibility == {"prominent", "detail", "hidden"}

\* type StreamEventType
StreamEventType ==
  {"connected", "session_created",
   "thinking_start", "analysis_result", "decision_trace", "pdca_step", "thinking_complete",
   "execution_start", "generation_start", "delta", "fallback",
   "rag_search_start", "rag_search_result", "rag_citation",
   "proxy_search_start", "proxy_search_result", "citation",
   "tool_call_start", "tool_call_progress", "tool_call_result",
   "usage", "document_created", "complete", "error"}

\* interface StreamEvent
Event(type, phase, data, timestamp, visibility) ==
  [type |-> type, phase |-> phase, data |-> data, timestamp |-> timestamp,
   visibility |-> visibility]

\* A decoded JSON value: kind ("object", "null", "true"); its members type,
\* timestamp, phase, visibility and data where it has them; self: the value
\* itself, as it appears when used as the data of a wrapping event
Json(kind, type, timestamp, phase, visibility, data, self) ==
  [kind |-> kind, type |-> type, timestamp |-> timestamp, phase |-> phase,
   visibility |-> visibility, data |-> data, self |-> self]

NoData == Data("undefined", Undefined, Undefined, Undefined)

\* a fully formed Stream Event as the server sends it
ServerEvent(name, type, phase, data, timestamp) ==
  Json("object", Some(type), Some(timestamp), Some(phase), Some("prominent"), data,
       Data(name, Undefined, Undefined, Undefined))

\* the JSON texts of the model and the values they decode to
JSONValue(atom) ==
  CASE atom = "{connected}" ->
         ServerEvent(atom, "connected", "plan", Data("{}", Undefined, Undefined, Undefined), 1000)
    [] atom = "{delta:Hello}" ->
         ServerEvent(atom, "delta", "do",
                     Data("{content}", Some(<<"Hello">>), Undefined, Undefined), 1001)
    [] atom = "{delta: World}" ->
         ServerEvent(atom, "delta", "do",
                     Data("{content}", Some(<<" World">>), Undefined, Undefined), 1002)
    [] atom = "{complete}" ->
         ServerEvent(atom, "complete", "act",
                     Data("{sessionId}", Undefined, Some("s-1"), Undefined), 1003)
    [] atom = "{delta:Hello@1}" ->
         ServerEvent(atom, "delta", "do",
                     Data("{content}", Some(<<"Hello">>), Undefined, Undefined), 1)
    [] atom = "{delta:Hi}" ->
         ServerEvent(atom, "delta", "do",
                     Data("{content}", Some(<<"Hi">>), Undefined, Undefined), 2)
    [] atom = "{delta:x}" ->
         ServerEvent(atom, "delta", "do",
                     Data("{content}", Some(<<"x">>), Undefined, Undefined), 1)
    [] atom = "{thinking_start@1}" ->
         ServerEvent(atom, "thinking_start", "plan",
                     Data("{}", Undefined, Undefined, Undefined), 1)
    [] atom = "{complete@3}" ->
         ServerEvent(atom, "complete", "act",
                     Data("{sessionId}", Undefined, Some("s-1"), Undefined), 3)
    [] atom = "{delta: }" ->
         ServerEvent(atom, "delta", "do",
                     Data("{content}", Some(<<" ">>), Undefined, Undefined), 2)
    [] atom = "{delta:World}" ->
         ServerEvent(atom, "delta", "do",
                     Data("{content}", Some(<<"World">>), Undefined, Undefined), 3)
    [] atom = "{pdca_step}" ->
         ServerEvent(atom, "pdca_step", "check",
                     Data("{}", Undefined, Undefined, Undefined), 1006)
    [] atom = "{thinking_start}" ->
         ServerEvent(atom, "thinking_start", "plan",
                     Data("{}", Undefined, Undefined, Undefined), 1004)
    [] atom = "{analysis_result}" ->
         ServerEvent(atom, "analysis_result", "plan",
                     Data("{}", Undefined, Undefined, Undefined), 1007)
    [] atom = "{decision_trace}" ->
         ServerEvent(atom, "decision_trace", "do",
                     Data("{}", Undefined, Undefined, Undefined), 1008)
    [] atom = "{thinking_complete}" ->
         ServerEvent(atom, "thinking_complete", "act",
                     Data("{}", Undefined, Undefined, Undefined), 1009)
    [] atom = "{error}" ->
         ServerEvent(atom, "error", "act",
                     Data("{message}", Undefined, Undefined, Some("boom")), 1005)
    [] atom = "{typeOnly}" ->
         Json("object", Some("delta"), Undefined, Undefined, Undefined, NoData,
              Data(atom, Undefined, Undefined, Undefined))
    [] atom = "{obj}" ->
         Json("object", Undefined, Undefined, Undefined, Undefined, NoData,
              Data(atom, Undefined, Undefined, Undefined))
    [] atom = "true" ->
         Json("true", Undefined, Undefined, Undefined, Undefined, NoData,
              Data(atom, Undefined, Undefined, Undefined))
    [] atom = "null" ->
         Json("null", Undefined, Undefined, Undefined, Undefined, NoData,
              Data(atom, Undefined, Undefined, Undefined))

JSONAtoms ==
  {"{connected}", "{delta:Hello}", "{delta: World}", "{complete}", "{thinking_start}",
   "{error}", "{typeOnly}", "{obj}", "true", "null", "{delta: }", "{delta:World}",
   "{pdca_step}", "{delta:Hello@1}", "{delta:Hi}", "{delta:x}", "{thinking_start@1}",
   "{complete@3}", "{analysis_result}", "{decision_trace}", "{thinking_complete}"}

\* JSON.parse(text): one JSON value, with white space around it allowed;
\* anything else is a SyntaxError
JSONParse(text) ==
  LET t == Trim(text)
  IN IF Len(t) = 1 /\ t[1] \in JSONAtoms
     THEN Return(JSONValue(t[1]))
     ELSE Throw(RawError("SyntaxError", "Unexpected token"))

\* the event of parseSingleEvent for a payload that is not JSON
DeltaOf(data) ==
  Event("delta", Some("do"), Data("{content}", Some(data), Undefined, Undefined),
        Some(DateNow), Some("prominent"))

\* parseSingleEvent, the loop over the lines: the accumulated data and the
\* last event type
RECURSIVE ScanLines(_, _, _)
ScanLines(lines, data, eventType) ==
  IF lines = <<>> THEN [data |-> data, eventType |-> eventType]
  ELSE LET line == Head(lines)
       IN IF StartsWith(line, <<"data:", SP>>)
          THEN ScanLines(Tail(lines), data \o Slice(line, 2), eventType)
          ELSE IF StartsWith(line, <<"data:">>)
          THEN ScanLines(Tail(lines), data \o Slice(line, 1), eventType)
          ELSE IF StartsWith(line, <<"event:", SP>>)
          THEN ScanLines(Tail(lines), data, Trim(Slice(line, 2)))
          ELSE IF StartsWith(line, <<"event:">>)
          THEN ScanLines(Tail(lines), data, Trim(Slice(line, 1)))
          ELSE ScanLines(Tail(lines), data, eventType)

\* parseSingleEvent without its test of an empty payload
parseSingleEventNoSkip(block) ==
  LET scan == ScanLines(SplitLines(block, <<>>), <<>>, <<>>)
      data == scan.data
      eventType == Spell(scan.eventType)
      p == JSONParse(data)
  IN IF p.type = "throw" \/ p.value.kind = "null"
     THEN \* JSON.parse throws, or parsed.type throws on null: the catch clause
          Some(DeltaOf(data))
     ELSE LET parsed == p.value
          IN IF Truthy(parsed.type) /\ IsDefined(parsed.timestamp)
             THEN Some(Event(Get(parsed.type), parsed.phase, parsed.data,
                             parsed.timestamp, parsed.visibility))
             ELSE Some(Event(IF eventType # "" THEN eventType ELSE "message",
                             Some("do"), parsed.self, Some(DateNow), Some("prominent")))

\* parseSingleEvent(block): the event, or Undefined for null
parseSingleEvent(block) ==
  LET scan == ScanLines(SplitLines(block, <<>>), <<>>, <<>>)
      data == scan.data
      eventType == Spell(scan.eventType)
      p == JSONParse(data)
  IN IF data = <<>> THEN Undefined
     ELSE IF p.type = "throw" \/ p.value.kind = "null"
     THEN \* JSON.parse throws, or parsed.type throws on null: the catch clause
          Some(DeltaOf(data))
     ELSE LET parsed == p.value
          IN IF Truthy(parsed.type) /\ IsDefined(parsed.timestamp)
             THEN Some(Event(Get(parsed.type), parsed.phase, parsed.data,
                             parsed.timestamp, parsed.visibility))
             ELSE Some(Event(IF eventType # "" THEN eventType ELSE "message",
                             Some("do"), parsed.self, Some(DateNow), Some("prominent")))

\* parseEvents, the loop over the blocks
RECURSIVE ParseBlocks(_)
ParseBlocks(blocks) ==
  IF blocks = <<>> THEN <<>>
  ELSE LET trimmed == Trim(Head(blocks))
           event == IF trimmed = <<>> THEN Undefined ELSE parseSingleEvent(trimmed)
       IN event \o ParseBlocks(Tail(blocks))

\* parseEvents that forgets the incomplete last block
parseEventsDropsRemaining(buffer) ==
  LET blocks == SplitBlocks(buffer, <<>>)
  IN [parsed |-> ParseBlocks(SubSeq(blocks, 1, Len(blocks) - 1)),
      remaining |-> <<>>]

\* parseEvents(buffer)
parseEvents(buffer) ==
  LET blocks == SplitBlocks(buffer, <<>>)
  IN [parsed |-> ParseBlocks(SubSeq(blocks, 1, Len(blocks) - 1)),
      remaining |-> blocks[Len(blocks)]]

----------------------------------------------------------------------------
(* streaming.ts: class AidenStream, the body it reads and its consumers *)

\* most records in a body of the parser harness
MaxRecords == 2
\* most records in a body of the consumption harness
MaxConsumeRecords == 1
\* most records in a body of the text and subscription harness
MaxDispatchRecords == 2

\* The SSE records a server writes, by name, without their blank-line
\* delimiter.
RecordText(kind) ==
  CASE kind = "connected" -> <<"data:", SP, "{connected}">>
    [] kind = "deltaHello" -> <<"data:", SP, "{delta:Hello}">>
    [] kind = "deltaWorld" -> <<"data:", SP, "{delta: World}">>
    [] kind = "complete" -> <<"data:", SP, "{complete}">>
    [] kind = "thinking" -> <<"data:", SP, "{thinking_start}">>
    [] kind = "pdca" -> <<"data:", SP, "{pdca_step}">>
    [] kind = "analysis" -> <<"data:", SP, "{analysis_result}">>
    [] kind = "decision" -> <<"data:", SP, "{decision_trace}">>
    [] kind = "thinkingComplete" -> <<"data:", SP, "{thinking_complete}">>
    [] kind = "deltaHello1" -> <<"data:", SP, "{delta:Hello@1}">>
    [] kind = "deltaHi" -> <<"data:", SP, "{delta:Hi}">>
    [] kind = "deltaX" -> <<"data:", SP, "{delta:x}">>
    [] kind = "thinkingStart1" -> <<"data:", SP, "{thinking_start@1}">>
    [] kind = "complete3" -> <<"data:", SP, "{complete@3}">>
    [] kind = "deltaSpace" -> <<"data:", SP, "{delta: }">>
    [] kind = "deltaWorldOnly" -> <<"data:", SP, "{delta:World}">>
    [] kind = "eventOnly" -> <<"event:", SP, "usage">>
    [] kind = "error" -> <<"data:", SP, "{error}">>
    [] kind = "errorHinted" -> <<"event:", SP, "error", NL, "data:", SP, "{obj}">>
    [] kind = "empty" -> <<>>
    [] kind = "blank" -> <<SP, SP>>
    [] kind = "comment" -> <<":", "hi", NL, "id:", "hi", NL, "retry:", "hi">>
    [] kind = "emptyData" -> <<"data:", SP>>
    [] kind = "hinted" -> <<"event:", SP, "usage", NL, "data:", "{obj}">>
    [] kind = "typeOnly" -> <<"data:", SP, "{typeOnly}">>
    [] kind = "text" -> <<"data:", SP, "hi">>
    [] kind = "multi" -> <<"data:", SP, "hi", NL, "data:", SP, "usage">>
    [] kind = "null" -> <<"data:", "null">>
    [] kind = "true" -> <<"data:", SP, "true">>
    [] kind = "accent" -> <<"data:", SP, "C3", "A9">>

\* the bytes of a body: events.join('\n\n'), followed by the delimiter when
\* the body is terminated, whatever the number of records
RECURSIVE Wire(_, _)
Wire(records, terminated) ==
  IF records = <<>> THEN (IF terminated THEN <<NL, NL>> ELSE <<>>)
  ELSE IF Len(records) = 1 THEN RecordText(records[1]) \o Wire(<<>>, terminated)
  ELSE RecordText(Head(records)) \o <<NL, NL>> \o Wire(Tail(records), terminated)

\* The bytes of a body where a chunk may end inside a symbol: a symbol t of
\* several bytes (any but a space, a line feed, a colon and the bytes of the
\* character) is written as two pieces, its first bytes t... and its last
\* bytes ...t, and a chunk may end between the two.  Wherever a symbol is cut
\* the code sees the same thing: a text that has the beginning of the symbol
\* and not yet its end.
RECURSIVE Cut(_)
Cut(bytes) ==
  IF bytes = <<>> THEN <<>>
  ELSE LET t == Head(bytes)
       IN (IF t \in {SP, NL, ":", "C3", "A9"} THEN <<t>> ELSE <<t \o "...", "..." \o t>>)
          \o Cut(Tail(bytes))

\* a + b for two strings: the first bytes of a symbol followed by its last
\* bytes are the symbol
RECURSIVE Concat(_, _)
Concat(a, b) ==
  LET s == a \o b
      Symbols == {"data:", "event:", "id:", "retry:", "hi", "usage", "error"} \cup JSONAtoms
  IN IF s = <<>> THEN <<>>
     ELSE IF Len(s) >= 2 /\ \E t \in Symbols : s[1] = t \o "..." /\ s[2] = "..." \o t
     THEN <<CHOOSE t \in Symbols : s[1] = t \o "...">> \o Concat(<<>>, Slice(s, 2))
     ELSE <<s[1]>> \o Concat(<<>>, Tail(s))

\* the errors of the stream
AlreadyConsumed ==
  RawError("Error", "Stream has already been consumed. SSE streams can only be read once.")
NoBody == ConnectionError("Response body is null -- no stream available")
ReaderLocked ==
  ErrorObject("TypeError", Some("Invalid state: ReadableStream is locked"),
              Some("ERR_INVALID_STATE"), Undefined, Undefined, Undefined, Undefined)
ReadError == RawError("TypeError", "terminated")

\* the consumption calls: direct iteration, text() and subscribe() with the
\* callbacks of Callbacks
Modes == {"iterate", "subscribe", "subscribeOnError", "subscribeTyped", "text"}

\* the members of the StreamCallbacks object a call of subscribe() is given:
\* all of them but onError, all of them, or those of the test 'should work
\* with callbacks via .subscribe()'
Callbacks(mode) ==
  CASE mode = "subscribe" -> {"onEvent", "onDelta", "onComplete", "onThinking"}
    [] mode = "subscribeOnError" ->
         {"onEvent", "onDelta", "onComplete", "onThinking", "onError"}
    [] mode = "subscribeTyped" -> {"onDelta", "onThinking", "onComplete"}
    [] OTHER -> {}

\* One consumption call.  mode: the call made; pc: idle (not made yet),
\* reading (the generator awaits reader.read()), yielding (the generator has
\* events to hand over), closing (the loop body was left with break or by an
\* exception, return() was called on the generator and its finally clause has
\* not run yet), returning / throwing (the generator is over, normally or
\* with iterError, the lock is released, and the for-await loop of the call,
\* suspended at its await, has not resumed yet), done (the call is over);
\* holdsReader / everHeld: the pass holds / has
\* held the reader; buffer, pending, queue, atEnd: locals of the generator
\* (buffer, the decoder's state, events.parsed not yet yielded, past the read
\* loop); got: the events handed to the loop body; text, completeData: locals
\* of text() and subscribe(); onErrorCalls: arguments of callbacks.onError;
\* log: the callbacks subscribe() invoked, in order, with their argument;
\* failedIn: where the handling of an event threw, if it did ("loop": the
\* caller's loop body, "onEvent", "typed": the callback of the event's type);
\* iterError: the error that ends the for-await loop; onErrorThrew: the
\* error callback threw in the catch clause of subscribe(); outcome:
\* completion of the call;
\* broke: the loop body left with break; startedAfter / startedDuring: the
\* call was made after another call had finished / while another was running
\* (made and not yet over).
Consumer(mode) ==
  [mode |-> mode, pc |-> "idle", holdsReader |-> FALSE, everHeld |-> FALSE,
   buffer |-> <<>>, pending |-> <<>>, queue |-> <<>>, atEnd |-> FALSE,
   got |-> <<>>, text |-> <<>>, completeData |-> Undefined, onErrorCalls |-> <<>>,
   log |-> <<>>, failedIn |-> Undefined,
   iterError |-> Undefined, onErrorThrew |-> FALSE, outcome |-> Undefined, broke |-> FALSE,
   startedAfter |-> FALSE, startedDuring |-> FALSE]

\* response.body.  present: it is not null; remaining: the bytes not yet read;
\* lockedBy: the call that holds its reader, or 0; cancelled: bytes of it were
\* discarded by cancel(); errored: the stream is in the errored state
Body(present, remaining) ==
  [present |-> present, remaining |-> remaining, lockedBy |-> 0, cancelled |-> FALSE,
   errored |-> FALSE]

StreamIdle ==
  /\ script = [records |-> <<>>, terminated |-> TRUE]
  /\ rbody = Body(TRUE, Wire(<<>>, TRUE))
  /\ consumed = FALSE
  /\ cons = <<>>

\* the guard of the generator with the test of the flag lost
ConsumedCheckMissing(flag) == FALSE

\* if (this.consumed): the guard of the generator
ConsumedCheck(flag) == flag

\* this.consumed = true, forgotten
MarkConsumedForgotten(flag) == flag

\* this.consumed = true
MarkConsumed(flag) == TRUE

\* one invocation of a callback of StreamCallbacks
Called(cb, arg) == [cb |-> cb, arg |-> arg]

\* the thinking types with all but the first lost
ThinkingTypesFirstOnly == {"thinking_start"}

\* the event types subscribe() hands to onThinking
ThinkingTypes ==
  {"thinking_start", "analysis_result", "decision_trace", "pdca_step", "thinking_complete"}

\* what a loop body or a callback throws when it fails
HandlerError == RawError("Error", "handler failed")

\* the loop body of text() with the test of the event type lost
TextStepAnyType(result0, ev) == result0 \o OrElse(ev.data.content, <<"undefined">>)

\* the loop body of text(): result += deltaData.content for a delta event
TextStep(result0, ev) ==
  IF ev.type = "delta" THEN result0 \o OrElse(ev.data.content, <<"undefined">>)
  ELSE result0

\* the catch clause of subscribe() with the error callback never found
HasOnErrorNever(mode) == FALSE

\* if (callbacks.onError), in the catch clause of subscribe()
HasOnError(mode) == "onError" \in Callbacks(mode)

\* reader.releaseLock(), forgotten
releaseLockForgotten(b) == b

\* reader.releaseLock()
releaseLock(b) == [b EXCEPT !.lockedBy = 0]

\* The end of a consumption call, the for-await loop having completed with
\* completion c: what text() and subscribe() make of it.  The catch clause of
\* subscribe() calls callbacks.onError with the exception; when the callback
\* throws (onErrorThrows) its exception leaves subscribe().
Epilogue(r, c, onErrorThrows) ==
  LET failed == c.type = "throw"
      base == [r EXCEPT !.pc = "done", !.holdsReader = FALSE,
                        !.iterError = IF failed THEN Some(c.value) ELSE Undefined]
  IN CASE r.mode = "iterate" -> [base EXCEPT !.outcome = Some(c)]
       [] r.mode = "text" ->
            [base EXCEPT !.outcome = Some(IF failed THEN c ELSE Return(r.text))]
       [] OTHER ->
            IF failed /\ HasOnError(r.mode)
            THEN [base EXCEPT !.outcome = Some(IF onErrorThrows THEN Throw(HandlerError)
                                               ELSE Return(r.completeData)),
                              !.onErrorThrew = onErrorThrows,
                              !.onErrorCalls = Append(@, c.value),
                              !.log = Append(@, Called("onError", c.value))]
            ELSE [base EXCEPT !.outcome = Some(IF failed THEN c ELSE Return(r.completeData))]

\* The loop body of the call for one event: the caller's own loop for direct
\* iteration, the bodies of text() and subscribe() otherwise.  subscribe()
\* calls a callback when the callbacks object has it (callbacks.onEvent?.()).
Deliver(r, ev) ==
  LET given == Callbacks(r.mode)
      Invoked(q, cb, arg) == IF cb \in given THEN [q EXCEPT !.log = Append(@, Called(cb, arg))]
                          ELSE q
      r1 == [r EXCEPT !.got = Append(@, ev)]
      r2 == Invoked(r1, "onEvent", ev)
  IN CASE r.mode = "iterate" -> r1
       [] r.mode = "text" ->
            [r1 EXCEPT !.text = TextStep(@, ev)]
       [] OTHER ->
            IF ev.type = "delta"
            THEN Invoked(r2, "onDelta", ev.data.content)
            ELSE IF ev.type = "complete"
            THEN Invoked([r2 EXCEPT !.completeData = Some(ev.data)], "onComplete", ev.data)
            ELSE IF ev.type = "error"
            THEN \* new Error(errorData.message): an undefined message
                 \* gives an Error whose message is the empty string
                 LET e == RawError("Error", OrElse(ev.data.message, ""))
                 IN IF "onError" \in given
                    THEN [Invoked(r2, "onError", e) EXCEPT !.onErrorCalls = Append(@, e)]
                    ELSE r2
            ELSE IF ev.type \in ThinkingTypes
            THEN Invoked(r2, "onThinking", ev)
            ELSE r2

\* the decoder called without the stream option: an incomplete character at
\* the end of a chunk is not kept for the next one
DecoderStateReset(pending) == <<>>

\* decoder.decode(value, { stream: true }): the bytes of an incomplete
\* character at the end of a chunk are kept for the next call
DecoderState(pending) == pending

\* the statement after the read loop dropped: nothing is parsed at the end
ParseRemainderSkipped(buffer) == <<>>

\* after the read loop: the events of what is left in the buffer
ParseRemainder(buffer) ==
  IF Trim(buffer) # <<>> THEN parseEvents(buffer \o <<NL, NL>>).parsed ELSE <<>>

\* the generator has thrown e: the call, suspended at the await of its
\* for-await loop, learns of it in a later step
GeneratorThrows(r, e) == [r EXCEPT !.pc = "throwing", !.holdsReader = FALSE, !.iterError = Some(e)]

\* a consumption call is made: its for-await loop asks the generator for the
\* first event, the generator runs up to its first await or throws, and the
\* call is suspended; the caller's synchronous code goes on
Start(c) ==
  LET r == [cons[c] EXCEPT
              !.startedAfter = \E d \in DOMAIN cons : d # c /\ cons[d].pc = "done",
              !.startedDuring = \E d \in DOMAIN cons :
                                   d # c /\ cons[d].pc \notin {"idle", "done"}]
  IN /\ cons[c].pc = "idle"
     /\ IF ConsumedCheck(consumed)
        THEN /\ cons' = [cons EXCEPT ![c] = GeneratorThrows(r, AlreadyConsumed)]
             /\ UNCHANGED <<consumed, rbody>>
        ELSE /\ consumed' = MarkConsumed(consumed)
             /\ IF ~rbody.present
                THEN /\ cons' = [cons EXCEPT ![c] = GeneratorThrows(r, NoBody)]
                     /\ UNCHANGED rbody
                ELSE IF rbody.lockedBy # 0
                THEN /\ cons' = [cons EXCEPT ![c] = GeneratorThrows(r, ReaderLocked)]
                     /\ UNCHANGED rbody
                ELSE /\ rbody' = [rbody EXCEPT !.lockedBy = c]
                     /\ cons' = [cons EXCEPT ![c] =
                          [r EXCEPT !.pc = "reading", !.holdsReader = TRUE, !.everHeld = TRUE]]
     /\ UNCHANGED <<script, clsVars, httpVars, urlVars, res>>

\* the for-await loop of the call resumes with the rejection of the
\* generator, or rethrows the exception of its body once the generator is
\* closed: the loop of the caller and text() throw it, subscribe() runs its
\* catch clause, where the error callback returns or throws
Rejected(c) ==
  /\ cons[c].pc = "throwing"
  /\ \E onErrorThrows \in BOOLEAN :
       /\ onErrorThrows => HasOnError(cons[c].mode)
       /\ cons' = [cons EXCEPT ![c] =
                     Epilogue(cons[c], Throw(Get(cons[c].iterError)), onErrorThrows)]
  /\ UNCHANGED <<script, rbody, consumed, clsVars, httpVars, urlVars, res>>

\* the for-await loop of the call resumes with the end of the generator and
\* is left: the code after the loop of the caller runs, text() and
\* subscribe() return
Returned(c) ==
  /\ cons[c].pc = "returning"
  /\ cons' = [cons EXCEPT ![c] = Epilogue(cons[c], Return(Undefined), FALSE)]
  /\ UNCHANGED <<script, rbody, consumed, clsVars, httpVars, urlVars, res>>

\* the generator, resumed by return(), runs its finally clause: the lock is
\* released and the generator is over
Finally(c) ==
  /\ cons[c].pc = "closing"
  /\ cons' = [cons EXCEPT ![c] =
                IF IsDefined(cons[c].iterError)
                THEN GeneratorThrows(cons[c], Get(cons[c].iterError))
                ELSE [cons[c] EXCEPT !.pc = "returning", !.holdsReader = FALSE]]
  /\ rbody' = releaseLock(rbody)
  /\ UNCHANGED <<script, consumed, clsVars, httpVars, urlVars, res>>

\* reader.read() resolves with a chunk of k bytes: decode, parse, keep the rest
Read(c, k) ==
  /\ cons[c].pc = "reading"
  /\ k \in 1..Len(rbody.remaining)
  /\ LET r == cons[c]
         dec == Decode(r.pending, SubSeq(rbody.remaining, 1, k), <<>>)
         events == parseEvents(Concat(r.buffer, dec.text))
     IN cons' = [cons EXCEPT ![c] =
                   [r EXCEPT !.pending = DecoderState(dec.pending), !.buffer = events.remaining,
                             !.queue = events.parsed,
                             !.pc = IF events.parsed = <<>> THEN "reading" ELSE "yielding"]]
  /\ rbody' = [rbody EXCEPT !.remaining = Slice(@, k)]
  /\ UNCHANGED <<script, consumed, clsVars, httpVars, urlVars, res>>

\* reader.read() resolves with done: the rest of the buffer is parsed; with
\* nothing to yield the generator releases the lock and is over, and the
\* call, suspended at the await of its for-await loop, learns of it in a
\* later step
ReadEnd(c) ==
  /\ cons[c].pc = "reading"
  /\ rbody.remaining = <<>>
  /\ LET r == cons[c]
         last == ParseRemainder(r.buffer)
     IN IF last = <<>>
        THEN /\ cons' = [cons EXCEPT ![c] = [r EXCEPT !.atEnd = TRUE, !.pc = "returning",
                                                        !.holdsReader = FALSE]]
             /\ rbody' = releaseLock(rbody)
        ELSE /\ cons' = [cons EXCEPT ![c] =
                           [r EXCEPT !.atEnd = TRUE, !.queue = last, !.pc = "yielding"]]
             /\ UNCHANGED rbody
  /\ UNCHANGED <<script, consumed, clsVars, httpVars, urlVars, res>>

\* the body errors and reader.read() rejects: the finally clause releases the
\* lock and the error leaves the generator
ReadFail(c) ==
  /\ cons[c].pc = "reading"
  /\ cons' = [cons EXCEPT ![c] = GeneratorThrows(cons[c], ReadError)]
  /\ rbody' = [releaseLock(rbody) EXCEPT !.errored = TRUE]
  /\ UNCHANGED <<script, consumed, clsVars, httpVars, urlVars, res>>

\* the generator yields its next event, the loop body runs, and the generator
\* resumes up to its next yield or await, or to its end, where it releases
\* the lock
Yield(c) ==
  /\ cons[c].pc = "yielding"
  /\ LET r == Deliver(cons[c], Head(cons[c].queue))
         rest == Tail(cons[c].queue)
     IN IF rest # <<>>
        THEN /\ cons' = [cons EXCEPT ![c] = [r EXCEPT !.queue = rest]]
             /\ UNCHANGED rbody
        ELSE IF r.atEnd
        THEN /\ cons' = [cons EXCEPT ![c] = [r EXCEPT !.queue = rest, !.pc = "returning",
                                                        !.holdsReader = FALSE]]
             /\ rbody' = releaseLock(rbody)
        ELSE /\ cons' = [cons EXCEPT ![c] = [r EXCEPT !.queue = rest, !.pc = "reading"]]
             /\ UNCHANGED rbody
  /\ UNCHANGED <<script, consumed, clsVars, httpVars, urlVars, res>>

\* the caller's loop receives an event and leaves with break: return() is
\* called on the generator, which has not resumed yet
Break(c) ==
  /\ cons[c].pc = "yielding"
  /\ cons[c].mode = "iterate"
  /\ cons' = [cons EXCEPT ![c] =
                [Deliver(cons[c], Head(cons[c].queue)) EXCEPT !.broke = TRUE, !.pc = "closing"]]
  /\ UNCHANGED <<script, rbody, consumed, clsVars, httpVars, urlVars, res>>

\* the generator yields its next event and the handling of the event throws:
\* the caller's own loop body, or a callback of subscribe (onEvent, before
\* anything else is done with the event, or the callback of the event's type,
\* last).  return() is called on the generator, which has not resumed yet;
\* the exception is kept to be rethrown once the generator is closed.
HandlerThrows(c, where) ==
  /\ cons[c].pc = "yielding"
  /\ LET r == cons[c]
         ev == Head(r.queue)
         r1 == IF where = "typed" THEN Deliver(r, ev)
               ELSE [r EXCEPT !.got = Append(@, ev),
                              !.log = IF where = "loop" THEN @
                                      ELSE Append(@, Called("onEvent", ev))]
     IN /\ CASE where = "loop" -> r.mode = "iterate"
             [] where = "onEvent" -> "onEvent" \in Callbacks(r.mode)
             [] where = "typed" ->
                  \* the callback of the event's type is among those given
                  \/ ev.type = "delta" /\ "onDelta" \in Callbacks(r.mode)
                  \/ ev.type = "complete" /\ "onComplete" \in Callbacks(r.mode)
                  \/ ev.type \in ThinkingTypes /\ "onThinking" \in Callbacks(r.mode)
                  \/ ev.type = "error" /\ "onError" \in Callbacks(r.mode)
        /\ cons' = [cons EXCEPT ![c] =
                      [r1 EXCEPT !.failedIn = Some(where), !.iterError = Some(HandlerError),
                                 !.pc = "closing"]]
  /\ UNCHANGED <<script, rbody, consumed, clsVars, httpVars, urlVars, res>>

\* abort(): this.response.body?.cancel().  Without a body nothing is done; a
\* body locked to a reader refuses and an errored body answers with its error
\* (the promise of cancel() rejects and is dropped, nothing is cancelled); a
\* body read to its end is closed already; otherwise the bytes not yet read
\* are discarded and the body is closed.
abort ==
  /\ rbody' = IF /\ rbody.present /\ rbody.lockedBy = 0 /\ ~rbody.errored
                 /\ rbody.remaining # <<>>
              THEN [rbody EXCEPT !.remaining = <<>>, !.cancelled = TRUE]
              ELSE rbody
  /\ UNCHANGED <<script, consumed, cons, clsVars, httpVars, urlVars, res>>

NextStream ==
  \/ abort
  \/ \E c \in DOMAIN cons : Start(c)
  \/ \E c \in DOMAIN cons : Rejected(c)
  \/ \E c \in DOMAIN cons : Returned(c)
  \/ \E c \in DOMAIN cons : Finally(c)
  \/ \E c \in DOMAIN cons : \E k \in 1..Len(rbody.remaining) : Read(c, k)
  \/ \E c \in DOMAIN cons : ReadEnd(c)
  \/ \E c \in DOMAIN cons : ReadFail(c)
  \/ \E c \in DOMAIN cons : Yield(c)
  \/ \E c \in DOMAIN cons : Break(c)
  \/ \E c \in DOMAIN cons : \E where \in {"loop", "onEvent", "typed"} : HandlerThrows(c, where)

----------------------------------------------------------------------------
(* resources/base.ts: class BaseResource and DocumentsResource.upload *)

\* no wrapper method is being called
ResIdle == res = [method |-> "none", pc |-> "none"]

\* the wrapper methods that make one request: the CRUD and streaming helpers
\* of BaseResource and DocumentsResource.upload
Wrappers ==
  {"_get", "_list", "_create", "_update", "_patch", "_delete", "_bulkDelete",
   "_stream", "_streamGet", "upload"}

\* the method of HttpClient a wrapper calls
EngineEntry(method) ==
  CASE method \in {"_get", "_create", "_update", "_patch"} -> "request"
    [] method = "_list" -> "requestPaginated"
    [] OTHER -> "requestRaw"

\* { headers: built, ...options }: a member of options, be its value
\* undefined, replaces the member of the same name written before the spread
Spread(built, opts) ==
  [opts EXCEPT !.headers = IF IsDefined(opts.headers) \/ "headers" \in opts.explicit
                           THEN opts.headers ELSE built]

\* the RequestOptions part of the HttpRequestOptions a wrapper hands to the
\* engine
EngineOptions(method, opts) ==
  LET own == OrElse(opts.headers, <<>>)
  IN CASE method \in {"_stream", "_streamGet"} ->
            Spread(Some(Assign(own, "Accept" :> "text/event-stream")), opts)
       [] method = "upload" -> Spread(Some(own), opts)
       [] OTHER -> opts

\* upload: the headers of its own call of fetchFn
uploadHeaders(cfg, opts) ==
  LET base == "Authorization" :> ("Bearer " \o cfg.apiKey)
      userId == IF IsDefined(opts.userId) THEN opts.userId ELSE cfg.userId
  IN IF Truthy(userId) THEN Assign(base, "X-User-ID" :> Get(userId)) ELSE base

\* upload: what it makes of the outcome o of its own call of fetchFn
uploadCompletion(o) ==
  IF o.t = "reject" THEN Throw(Get(o.exc))
  ELSE IF Ok(o) THEN ResponseJson(o)
  ELSE LET errorBody ==
             IF IsDefined(o.json) THEN Get(o.json)
             ELSE JsonBody("object", "object", Some("UPLOAD_FAILED"),
                           Some("Upload failed: status text"), "present", Some("unknown"))
           hasError == errorBody.error = "object"
       IN IF errorBody.kind = "null"
          THEN Throw(RawError("TypeError", "Cannot read properties of null"))
          ELSE Throw(ErrorObject("AidenError",
                 Some(IF hasError THEN OrElse(errorBody.message, "Upload failed")
                      ELSE "Upload failed"),
                 Some(IF hasError THEN OrElse(errorBody.code, "UPLOAD_FAILED")
                      ELSE "UPLOAD_FAILED"),
                 Some(o.status),
                 Some(IF errorBody.meta = "present"
                      THEN OrElse(errorBody.requestId, "unknown") ELSE "unknown"),
                 Undefined, Undefined))

\* One call of a wrapper.  method: the wrapper; options: the RequestOptions
\* of the caller; file: the kind of params.file for upload ("blob": a Blob or
\* a Buffer, "stream": anything else); pc: idle, engine
\* (the call of the engine is running), done; direct: the calls of fetchFn the
\* wrapper made itself; outcome: "return" or "throw" once the call is over;
\* error: what it threw.
WrapperCall(method, opts, file) ==
  [method |-> method, options |-> opts, file |-> file, pc |-> "idle", direct |-> 0,
   outcome |-> "none", error |-> Undefined]

\* the wrapper is called: it builds the request options and calls the engine,
\* which runs up to its loop (the path and the query of the request are those
\* of urlIn); upload refuses a file that is neither a Blob nor a Buffer
\* before anything is sent
Invoke ==
  /\ res.pc = "idle"
  /\ IF res.method = "upload" /\ res.file = "stream"
     THEN /\ res' = [res EXCEPT !.pc = "done", !.outcome = "throw",
                       !.error = Some(ConnectionError(
                         "Streaming uploads are not supported. Please provide a Buffer or Blob."))]
          /\ UNCHANGED httpVars
          /\ UNCHANGED urlOut
     ELSE /\ res' = [res EXCEPT !.pc = "engine"]
          /\ entry' = EngineEntry(res.method)
          /\ options' = EngineOptions(res.method, res.options)
          /\ requestRaw(urlIn, options')
          /\ UNCHANGED <<config, calls, sent, nSleeps, lastSleep, seen, lastTag>>
  /\ UNCHANGED <<clsVars, streamVars, urlIn, sentTo>>

\* the call of the engine is over and its completion is the wrapper's: an
\* error is not caught, a value is returned (wrapped in an AidenStream by the
\* streaming helpers, dropped by _delete and _bulkDelete)
Settle ==
  /\ res.pc = "engine"
  /\ pc = "done"
  /\ ~(res.method = "upload" /\ Get(result).type = "return")
  /\ res' = [res EXCEPT !.pc = "done", !.outcome = Get(result).type,
               !.error = IF Get(result).type = "throw" THEN Some(Get(result).value)
                         ELSE Undefined]
  /\ UNCHANGED <<clsVars, httpVars, streamVars, urlVars>>

\* upload, after requestRaw has returned: the response is dropped and the
\* form data is sent with a call of fetchFn of its own
UploadFetch ==
  /\ res.pc = "engine"
  /\ pc = "done"
  /\ res.method = "upload"
  /\ Get(result).type = "return"
  /\ \E o \in Outcomes :
       LET c == uploadCompletion(o)
       IN /\ calls' = calls + 1
          /\ sent' = Some(uploadHeaders(config, res.options))
          /\ sentTo' = Some([href |-> urlIn.baseUrl.origin \o "/" \o urlIn.path.rest,
                             search |-> <<>>])
          /\ seen' = seen \cup {Tag(o)}
          /\ lastTag' = Some(Tag(o))
          /\ res' = [res EXCEPT !.pc = "done", !.direct = @ + 1, !.outcome = c.type,
                       !.error = IF c.type = "throw" THEN Some(c.value) ELSE Undefined]
  /\ UNCHANGED <<config, entry, options, pc, headers, timeout, attempt, lastError,
                 response, result, nSleeps, lastSleep, clsVars, streamVars, urlIn, urlOut>>

----------------------------------------------------------------------------
(* resources/base.ts: the auto-pagination helper _listAll *)

\* params?.limit ?? 50
DefaultLimit == 50

\* const limit = params?.limit ?? 50, params being a sequence of entries
limitOf(params) ==
  IF \E i \in 1..Len(params) : params[i].key = "limit" /\ IsSet(params[i].value)
  THEN params[CHOOSE i \in 1..Len(params) : params[i].key = "limit"].value
  ELSE QueryValue("number", DefaultLimit, FALSE, "")

\* the page parameters with the caller's filters left out after the first page
PageParamsDropsFilters(params, page, limit) ==
  LET Put(obj, key, value) ==
        IF \E i \in 1..Len(obj) : obj[i].key = key
        THEN [i \in 1..Len(obj) |->
                IF obj[i].key = key THEN [key |-> key, value |-> value] ELSE obj[i]]
        ELSE Append(obj, [key |-> key, value |-> value])
  IN Put(Put(IF page = 1 THEN params ELSE <<>>,
             "page", QueryValue("number", page, FALSE, "")), "limit", limit)

\* { ...params, page, limit }
PageParams(params, page, limit) ==
  LET Put(obj, key, value) ==
        IF \E i \in 1..Len(obj) : obj[i].key = key
        THEN [i \in 1..Len(obj) |->
                IF obj[i].key = key THEN [key |-> key, value |-> value] ELSE obj[i]]
        ELSE Append(obj, [key |-> key, value |-> value])
  IN Put(Put(params, "page", QueryValue("number", page, FALSE, "")), "limit", limit)

\* _list, the loop over Object.entries(params): the query handed to
\* requestPaginated
listQuery(params) ==
  SelectSeq(params, LAMBDA e : e.value.t # "undefined" /\ e.value.t # "null")

\* the test that ends the loop, taking one page too many
LastPageOffByOne(pagination, page) ==
  ~IsDefined(pagination) \/ page > Get(pagination)

\* !pagination || page >= pagination.totalPages, pagination being the
\* optional totalPages of response.meta.pagination
LastPage(pagination, page) ==
  ~IsDefined(pagination) \/ page >= Get(pagination)

\* One iteration over _listAll(path, params, options), the options being
\* those of the variable options.  pc: fetch (the generator is about to call
\* this._list), engine (it awaits this._list, the call of requestPaginated is
\* running), yield (it has an item to hand over), done; page: let page;
\* requests: the query objects handed to requestPaginated, in order;
\* responses: the pages received (n: the number of items of response.data,
\* meta: response.meta is "present" or "absent", pagination: totalPages, if
\* meta has a pagination); next: the index in response.data of the item to
\* yield; trace: the requests made and the items yielded, in order; outcome:
\* "return" or "throw" once the generator is over; error: what it threw;
\* broke: the loop of the caller was left with break.
ListAllCall(params) ==
  [method |-> "_listAll", pc |-> "fetch", params |-> params, page |-> 1,
   requests |-> <<>>, responses |-> <<>>, next |-> 0, trace |-> <<>>,
   outcome |-> "none", error |-> Undefined, broke |-> FALSE]

\* after the loop over response.data: response.meta.pagination throws on a
\* response without meta; otherwise the end of the generator or page++
AfterItems(r) ==
  LET received == r.responses[Len(r.responses)]
  IN IF received.meta = "absent"
     THEN [r EXCEPT !.pc = "done", !.outcome = "throw",
             !.error = Some(RawError("TypeError",
                "Cannot read properties of undefined (reading 'pagination')"))]
     ELSE IF LastPage(received.pagination, r.page)
     THEN [r EXCEPT !.pc = "done", !.outcome = "return"]
     ELSE [r EXCEPT !.pc = "fetch", !.page = @ + 1]

\* this._list(path, { ...params, page, limit }, options): the query of the
\* page is built and handed to requestPaginated, which runs up to its loop
FetchPage ==
  /\ res.pc = "fetch"
  /\ LET query == listQuery(PageParams(res.params, res.page, limitOf(res.params)))
     IN /\ res' = [res EXCEPT
                     !.pc = "engine",
                     !.requests = Append(@, query),
                     !.trace = Append(@, [kind |-> "request", page |-> res.page, item |-> 0])]
        /\ urlIn' = [urlIn EXCEPT !.query = Some(query)]
        /\ entry' = "requestPaginated"
        /\ requestRaw(urlIn', options)
  /\ UNCHANGED <<config, options, calls, sent, nSleeps, lastSleep, seen, lastTag,
                 sentTo, clsVars, streamVars>>

\* await this._list(..) is over: an exception of the request leaves the
\* generator; of the body returned the generator iterates the member data,
\* which throws when the body is null or has no data
ReceivePage ==
  /\ res.pc = "engine"
  /\ pc = "done"
  /\ LET c == Get(result)
         Fails(e) == [res EXCEPT !.pc = "done", !.outcome = "throw", !.error = Some(e)]
     IN res' =
          IF c.type = "throw" THEN Fails(c.value)
          ELSE IF c.value.kind = "null"
          THEN Fails(RawError("TypeError", "Cannot read properties of null (reading 'data')"))
          ELSE IF ~IsDefined(c.value.data)
          THEN Fails(RawError("TypeError", "response.data is not iterable"))
          ELSE LET got == [res EXCEPT
                             !.responses = Append(@, [n |-> Get(c.value.data),
                                                      meta |-> c.value.meta,
                                                      pagination |-> c.value.pagination])]
               IN IF Get(c.value.data) > 0 THEN [got EXCEPT !.pc = "yield", !.next = 1]
                  ELSE AfterItems(got)
  /\ UNCHANGED <<clsVars, httpVars, streamVars, urlVars>>

\* yield item: the loop body of the caller runs and asks for the next item
YieldItem ==
  /\ res.pc = "yield"
  /\ LET given == [res EXCEPT !.trace = Append(@, [kind |-> "yield", page |-> res.page,
                                                  item |-> res.next])]
     IN res' = IF res.next < res.responses[Len(res.responses)].n
               THEN [given EXCEPT !.next = @ + 1]
               ELSE AfterItems(given)
  /\ UNCHANGED <<clsVars, httpVars, streamVars, urlVars>>

\* yield item: the loop body of the caller leaves with break, the generator
\* is returned
BreakLoop ==
  /\ res.pc = "yield"
  /\ res' = [res EXCEPT !.trace = Append(@, [kind |-> "yield", page |-> res.page,
                                            item |-> res.next]),
               !.pc = "done", !.outcome = "return", !.broke = TRUE]
  /\ UNCHANGED <<clsVars, httpVars, streamVars, urlVars>>

----------------------------------------------------------------------------
(* Specifications *)

\* baseConfig of the tests: an API key and a base URL, nothing else
DefaultConfig == Config("test-key", Undefined, Undefined, Undefined)
DefaultOptions == RequestOptions(Undefined, Undefined, Undefined, FALSE)

\* the classifier alone, on every input of ClassifierInputs
InitErr ==
  /\ clsIn \in ClassifierInputs
  /\ clsOut = Undefined
  /\ HttpIdle(DefaultConfig, DefaultOptions, "requestRaw")
  /\ StreamIdle
  /\ UrlIdle
  /\ ResIdle

SpecErr == InitErr /\ [][ClassifyCall]_vars

\* buildUrl: every base, path and query object of at most MaxQuery entries
InitUrl ==
  /\ ClsIdle
  /\ ResIdle
  /\ HttpIdle(DefaultConfig, DefaultOptions, "requestRaw")
  /\ StreamIdle
  /\ urlIn \in UrlInputs
  /\ urlOut = Undefined
  /\ sentTo = Undefined

SpecUrl == InitUrl /\ [][BuildUrlCall]_vars

\* the retry engine: every retry budget, entry point and timeout setting, on
\* a client whose base URL is or is not an absolute URL
InitHttp ==
  /\ ClsIdle
  /\ ResIdle
  /\ StreamIdle
  /\ \E ct \in {Undefined, Some(5000)}, n \in (-1)..MaxRetries,
        ot \in {Undefined, Some(700)}, e \in Entries :
       HttpIdle(Config("test-key", Undefined, ct, Some(n)),
                RequestOptions(Undefined, Undefined, ot, FALSE), e)
  /\ \E base \in {"https://api.test.com", "", "not a url"} :
       urlIn = [baseUrl |-> [origin |-> base, slashes |-> 0],
                path |-> [lead |-> FALSE, rest |-> "api/v1/notebooks"],
                query |-> Some(<< [key |-> "page", value |-> QueryValue("number", 1, FALSE, "")],
                                  [key |-> "search",
                                   value |-> QueryValue("undefined", 0, FALSE, "")],
                                  [key |-> "q", value |-> QueryValue("string", 0, FALSE, "a b")] >>)]
  /\ urlOut = Undefined
  /\ sentTo = Undefined

NextHttp == Call \/ Attempt \/ Exhausted \/ Unwrap

SpecHttp == InitHttp /\ [][NextHttp]_vars

\* request construction: every user-scope and custom-header setting
CustomHeaders ==
  { Undefined, Some(<<>>), Some("X-Trace" :> "t-1"),
    Some("Authorization" :> "Basic abc"), Some("X-User-ID" :> "hdr-user") }

InitHeaders ==
  /\ ClsIdle
  /\ UrlIdle
  /\ ResIdle
  /\ StreamIdle
  /\ \E cu \in {Undefined, Some(""), Some("user-1")},
        ou \in {Undefined, Some(""), Some("user-2")}, h \in CustomHeaders :
       HttpIdle(Config("test-key", cu, Undefined, Some(HdrMaxRetries)),
                RequestOptions(ou, h, Undefined, FALSE), "request")

SpecHeaders == InitHeaders /\ [][NextHttp]_vars

\* the wrappers: one call of every wrapper method, with the request options
\* a caller passes: none, a user id, a timeout, custom headers, a member
\* headers that is undefined; on a client whose base URL is or is not an
\* absolute URL
InitWrap ==
  LET WrapperOptions ==
        { DefaultOptions,
          RequestOptions(Some("user-2"), Undefined, Undefined, FALSE),
          RequestOptions(Undefined, Undefined, Some(700), FALSE),
          RequestOptions(Undefined, Some("X-Trace" :> "t-1"), Undefined, FALSE),
          [DefaultOptions EXCEPT !.explicit = {"headers"}] }
  IN /\ ClsIdle
     /\ \E base \in {"https://api.test.com", ""} :
          urlIn = [baseUrl |-> [origin |-> base, slashes |-> 0],
                   path |-> [lead |-> TRUE, rest |-> "test"], query |-> Undefined]
     /\ urlOut = Undefined
     /\ sentTo = Undefined
     /\ StreamIdle
     /\ \E u \in {Undefined, Some("user-1")} :
          HttpIdle(Config("test-key", u, Undefined, Some(HdrMaxRetries)),
                   DefaultOptions, "requestRaw")
     /\ \E method \in Wrappers, opts \in WrapperOptions, file \in {"blob", "stream"} :
          /\ method # "upload" => file = "blob"
          /\ res = WrapperCall(method, opts, file)

NextWrap == Invoke \/ Attempt \/ Exhausted \/ Unwrap \/ Settle \/ UploadFetch

SpecWrap == InitWrap /\ [][NextWrap]_vars

\* auto-pagination: one iteration over _listAll("/test", params) for the filter
\* parameters a caller passes (none; a search text; a limit and a search
\* text; a page of its own, an undefined filter and a null limit), on a
\* client that does not retry (maxRetries: 0) and a list endpoint that
\* answers as ListOutcomes says
InitList ==
  LET Entry(key, t, n, str) == [key |-> key, value |-> QueryValue(t, n, FALSE, str)]
  IN /\ ClsIdle
     /\ UrlIdle
     /\ StreamIdle
     /\ HttpIdle(Config("test-key", Undefined, Undefined, Some(0)), DefaultOptions,
                 "requestPaginated")
     /\ \E params \in
            { <<>>,
              <<Entry("search", "string", 0, "test")>>,
              <<Entry("limit", "number", 10, ""), Entry("search", "string", 0, "test")>>,
              <<Entry("page", "number", 7, ""), Entry("status", "undefined", 0, ""),
                Entry("limit", "null", 0, "")>> } :
          res = ListAllCall(params)

NextList ==
  FetchPage \/ Attempt \/ Exhausted \/ Unwrap \/ ReceivePage \/ YieldItem \/ BreakLoop

SpecList == InitList /\ [][NextList]_vars

\* the same with a caller that goes on iterating and requests that complete
SpecListLive == SpecList /\ WF_vars(NextList)

\* the parser: one direct iteration over every body of at most MaxRecords
\* records of StreamKinds, over the bodies of the tests 'should parse
\* ThinkingEvent format' and 'should handle empty events gracefully' and over
\* bodies of the other kinds, read in chunks of every size, a chunk ending
\* between two symbols or inside one.
\* StreamKinds: a fully formed event, records without data, a payload that
\* is JSON but no event, payloads that are not JSON.
StreamKinds == {"deltaHello", "blank", "emptyData", "hinted", "null", "text", "accent"}

InitStream ==
  /\ ClsIdle
  /\ UrlIdle
  /\ ResIdle
  /\ HttpIdle(DefaultConfig, DefaultOptions, "requestRaw")
  /\ \E records \in SeqUpTo(StreamKinds, MaxRecords)
                      \cup { <<"connected", "deltaHello", "deltaWorld", "complete">>,
                             <<"empty", "blank">> }
                      \cup { <<"connected">>, <<"complete">>, <<"true">>, <<"multi">>,
                             <<"typeOnly">>, <<"comment">>, <<"eventOnly">>,
                             <<"comment", "eventOnly">> },
        terminated \in BOOLEAN :
       /\ script = [records |-> records, terminated |-> terminated]
       /\ rbody = Body(TRUE, Cut(Wire(records, terminated)))
  /\ consumed = FALSE
  /\ cons = [c \in {1} |-> Consumer("iterate")]

SpecStream == InitStream /\ [][NextStream]_vars

\* consumption: two calls, of every mode, on one stream, in every order and
\* interleaving; the bodies have at most MaxConsumeRecords records, among
\* them the delta 'x' of the test 'should throw if consumed twice'
ConsumeKinds == {"deltaX", "complete", "error"}

InitConsume ==
  /\ ClsIdle
  /\ UrlIdle
  /\ ResIdle
  /\ HttpIdle(DefaultConfig, DefaultOptions, "requestRaw")
  /\ \E records \in SeqUpTo(ConsumeKinds, MaxConsumeRecords), present \in BOOLEAN :
       /\ script = [records |-> records, terminated |-> TRUE]
       /\ rbody = Body(present, Wire(records, TRUE))
  /\ consumed = FALSE
  /\ cons \in [{1, 2} -> {Consumer(m) : m \in Modes}]

SpecConsume == InitConsume /\ [][NextStream]_vars

\* dispatch of the events: one call, of any mode, on every body of at most
\* MaxDispatchRecords events of DispatchKinds (a delta, a complete, an error
\* and thinking events), on the bodies of the tests (the thinking_start event
\* is theirs) and on the bodies of one event of another kind, among them an
\* error event that has no message
DispatchKinds ==
  {"deltaHello", "complete", "error", "analysis", "decision", "pdca", "thinkingComplete"}

\* createSSEResponse of the tests: the records of 'should collect text via
\* .text()' and of 'should work with callbacks via .subscribe()'
DispatchTests ==
  { <<"deltaHello1", "deltaSpace", "deltaWorldOnly">>,
    <<"thinkingStart1", "deltaHi", "complete3">> }

InitDispatch ==
  /\ ClsIdle
  /\ UrlIdle
  /\ ResIdle
  /\ HttpIdle(DefaultConfig, DefaultOptions, "requestRaw")
  /\ \E records \in SeqUpTo(DispatchKinds, MaxDispatchRecords) \cup DispatchTests
                      \cup { <<"connected">>, <<"thinking">>, <<"deltaWorld">>, <<"text">>,
                             <<"hinted">>, <<"errorHinted">> },
        present \in BOOLEAN :
       /\ script = [records |-> records, terminated |-> TRUE]
       /\ rbody = Body(present, Wire(records, TRUE))
  /\ consumed = FALSE
  /\ cons \in [{1} -> {Consumer(m) : m \in Modes}]

SpecDispatch == InitDispatch /\ [][NextStream]_vars

----------------------------------------------------------------------------
(* Properties of the transport engine and of the error classifier *)

Finished == pc = "done" /\ IsDefined(result)
Thrown == Finished /\ Get(result).type = "throw"
ThrownError == Get(result).value

\* C1: with maxRetries = N >= 0, one call of request, requestPaginated or
\* requestRaw invokes the transport function at most N + 1 times, whatever
\* the transport produces.
C1_AtMostNPlusOneCalls ==
  maxRetries(config) >= 0 => calls <= maxRetries(config) + 1

\* C1 witness: a call that has used its whole budget of MaxRetries + 1
\* transport calls and has finished.
C1_Witness ==
  /\ Finished
  /\ maxRetries(config) = MaxRetries
  /\ calls = MaxRetries + 1

\* C2 as stated: when every answer of the transport was a 429, a finished
\* call on a client with maxRetries = N >= 0 has made exactly N + 1 transport
\* calls and has thrown a RateLimitError with code RATE_LIMITED.
C2_Always429ThrowsRateLimit ==
  (Finished /\ seen = {429} /\ maxRetries(config) >= 0)
    => /\ calls = maxRetries(config) + 1
       /\ Get(result).type = "throw"
       /\ ThrownError.name = "RateLimitError"
       /\ ThrownError.code = Some("RATE_LIMITED")

\* statuses that are neither success, nor 429, nor 5xx
NonRetryableStatuses == { s \in ErrorStatuses : s # 429 /\ s < 500 }

\* C3 as stated: a response with a non-retryable status (404, 418), whatever
\* its body, is followed by no backoff sleep and no further transport call,
\* and the call throws at once: a NotFoundError for a 404.
C3_NoRetryOnOtherStatus ==
  [][ /\ (calls' = calls + 1 /\ IsDefined(lastTag') /\ Get(lastTag') \in NonRetryableStatuses)
           => nSleeps' = nSleeps
      /\ (IsDefined(lastTag) /\ Get(lastTag) \in NonRetryableStatuses)
           => (calls' = calls /\ nSleeps' = nSleeps)
      /\ (pc' = "done" /\ lastTag' = Some(404) /\ IsDefined(result'))
           => /\ Get(result').type = "throw"
              /\ Get(result').value.name = "NotFoundError" ]_vars

\* C4 as stated: every failing call of request, requestPaginated or
\* requestRaw throws an error of the SDK hierarchy (an AidenError kind,
\* ConnectionError or TimeoutError), never a raw exception.
C4_OnlyTypedErrors ==
  Thrown => InstanceOfAidenError(ThrownError)

\* the custom headers of the call, as a header bag
CustomOf(opts) == OrElse(opts.headers, <<>>)

\* C5 as stated: every request sent carries Authorization = 'Bearer <apiKey>',
\* and carries X-User-ID if and only if a user-scope id (a non-empty string)
\* is configured on the client or supplied per call.
C5_AuthAndUserHeader ==
  IsDefined(sent) =>
    LET h == Get(sent)
    IN /\ "Authorization" \in DOMAIN h
       /\ h["Authorization"] = "Bearer " \o config.apiKey
       /\ ("X-User-ID" \in DOMAIN h) <=> (Truthy(config.userId) \/ Truthy(options.userId))

\* C5 amended: a custom header named Authorization or X-User-ID replaces the
\* engine's value.  Otherwise Authorization = 'Bearer <apiKey>', and X-User-ID
\* is present, with that value, if and only if the effective user id (the
\* per-call userId when one is given, even an empty one, else the client's)
\* is a non-empty string.
C5_AuthAndUserHeaderAmended ==
  IsDefined(sent) =>
    LET h == Get(sent)
        custom == CustomOf(options)
        effective == IF IsDefined(options.userId) THEN options.userId ELSE config.userId
    IN /\ "Authorization" \in DOMAIN h
       /\ h["Authorization"] = IF "Authorization" \in DOMAIN custom
                               THEN custom["Authorization"]
                               ELSE "Bearer " \o config.apiKey
       /\ IF "X-User-ID" \in DOMAIN custom
          THEN "X-User-ID" \in DOMAIN h /\ h["X-User-ID"] = custom["X-User-ID"]
          ELSE /\ ("X-User-ID" \in DOMAIN h) <=> Truthy(effective)
               /\ "X-User-ID" \in DOMAIN h => h["X-User-ID"] = Get(effective)

\* C5 witness: a retried request (second transport call) sent with the
\* per-call user id overriding the client's, and no custom header.
C5_Witness ==
  /\ IsDefined(sent)
  /\ calls = 2
  /\ config.userId = Some("user-1")
  /\ options.userId = Some("user-2")
  /\ options.headers = Undefined
  /\ Get(sent)["X-User-ID"] = "user-2"
  /\ Get(sent)["Authorization"] = "Bearer " \o config.apiKey

\* the error class the specification assigns to a status
KindOfStatus(status) ==
  CASE status = 400 -> "ValidationError"
    [] status = 401 -> "AuthenticationError"
    [] status = 403 -> "ForbiddenError"
    [] status = 404 -> "NotFoundError"
    [] status = 409 -> "ConflictError"
    [] status = 422 -> "UnprocessableEntityError"
    [] status = 429 -> "RateLimitError"
    [] status = 500 -> "InternalError"
    [] status = 502 -> "BadGatewayError"
    [] status = 503 -> "ServiceUnavailableError"
    [] status = 504 -> "GatewayTimeoutError"
    [] OTHER -> "AidenError"

\* C6 as stated: createErrorFromResponse returns, for each of the eleven
\* mapped statuses, an error of the corresponding class whose status equals
\* the input status; for 429 retryAfter is the supplied value, else 60000;
\* any other status gives a plain AidenError keeping the raw status and the
\* body's code.
C6_ClassifierMapping ==
  IsDefined(clsOut) =>
    LET c == Get(clsOut)
    IN /\ c.type = "return"
       /\ c.value.name = KindOfStatus(clsIn.status)
       /\ c.value.status = Some(clsIn.status)
       /\ clsIn.status = 429 =>
            /\ IsDefined(c.value.retryAfter)
            /\ Get(c.value.retryAfter) =
                 (IF IsDefined(clsIn.retryAfterMs) THEN Get(clsIn.retryAfterMs) ELSE 60000)
       /\ clsIn.status \in {302, 418} =>
            /\ c.value.name = "AidenError"
            /\ c.value.code = clsIn.body.code

\* C7 as stated: createErrorFromResponse never throws: for every status and
\* every JSON value safeParseJson can hand it, it returns an error of the SDK
\* hierarchy, whose requestId is 'unknown' when meta.requestId is missing.
C7_ClassifierNeverThrows ==
  IsDefined(clsOut) =>
    LET c == Get(clsOut)
    IN /\ c.type = "return"
       /\ InstanceOfAidenError(c.value)
       /\ (clsIn.body.meta = "absent" \/ clsIn.body.requestId = Undefined)
            => c.value.requestId = Some("unknown")

\* the timeout in effect for the call: the per-request override, else the
\* client's, else 30 s
TimeoutInEffect ==
  IF IsDefined(options.timeout) THEN Get(options.timeout)
  ELSE IF IsDefined(config.timeout) THEN Get(config.timeout) ELSE 30000

\* C17: an attempt the timeout aborts ends the call at once, whatever the
\* attempts left: the iteration makes no sleep and throws, and a call whose
\* last transport outcome was the abort has finished with a TimeoutError of
\* status 0 carrying the timeout in effect.
C17_TimeoutIsFatal ==
  /\ (pc = "loop" /\ LoopGuard(attempt, config)) =>
       \A j1 \in Jitters, j2 \in Jitters :
         LET it == Iteration(attempt, config, Reject(Aborted), timeout, j1, j2)
         IN it.ctl = "throw" /\ it.sleeps = <<>> /\ it.value.name = "TimeoutError"
  /\ lastTag = Some(-1) =>
       /\ Thrown
       /\ ThrownError.name = "TimeoutError"
       /\ ThrownError.status = Some(0)
       /\ ThrownError.timeoutMs = Some(TimeoutInEffect)

\* the timeout has fired on a retry, with an attempt still left and a
\* per-request timeout overriding the client's
C17_Witness ==
  /\ lastTag = Some(-1)
  /\ Thrown
  /\ calls = 2 /\ nSleeps = 1
  /\ maxRetries(config) = MaxRetries
  /\ config.timeout = Some(5000) /\ options.timeout = Some(700)
  /\ ThrownError.timeoutMs = Some(700)

\* C18: while every transport call has failed with a network error other
\* than the abort, each call but the last allowed is followed by one sleep;
\* the call ends after exactly maxRetries + 1 transport calls and maxRetries
\* sleeps by throwing a ConnectionError of status 0.
C18_NetworkFailureBudget ==
  seen = {-2} =>
    /\ calls <= maxRetries(config) + 1
    /\ pc = "loop" => /\ calls = attempt
                      /\ nSleeps = Min(calls, maxRetries(config))
    /\ pc = "done" => /\ calls = maxRetries(config) + 1
                      /\ nSleeps = maxRetries(config)
                      /\ Thrown
                      /\ ThrownError.name = "ConnectionError"
                      /\ ThrownError.status = Some(0)

\* MaxRetries + 1 calls have all failed on the network
C18_Witness ==
  /\ seen = {-2}
  /\ Thrown
  /\ maxRetries(config) = MaxRetries
  /\ calls = MaxRetries + 1
  /\ nSleeps = MaxRetries
  /\ ThrownError.name = "ConnectionError"

\* C19 as stated: a call that has used all its attempts and throws, throws
\* the error of its final attempt: the classified error of the final
\* response (class and status of that response) or a ConnectionError for a
\* final network failure; the 'failed after all retries' error is thrown only
\* by a call that made no attempt.
C19_LastErrorIsFinalAttempt ==
  /\ (Thrown /\ maxRetries(config) >= 0 /\ calls = maxRetries(config) + 1
        /\ Get(lastTag) \in ErrorStatuses \cup {-2}) =>
       IF Get(lastTag) = -2
       THEN ThrownError.name = "ConnectionError"
       ELSE /\ ThrownError.name = KindOfStatus(Get(lastTag))
            /\ ThrownError.status = lastTag
  /\ (Thrown /\ ThrownError.message = Some("Request failed after all retries")) => calls = 0

\* the values parseRetryAfter gives for the headers of the model
RetryAfterValues == { parseRetryAfter(Resp(429, Undefined, h, Undefined)) : h \in RetryAfterHeaders }

\* C20 as stated: a transport call that is followed by a retry is followed by
\* one sleep, of min(2^k * 1000 + j, 30000) ms for attempt number k and a
\* jitter j, after a 429 of the minimum of that and the retry-after value;
\* no sleep is longer than 30000 ms.
C20_BackoffFormula ==
  [][ (calls' = calls + 1 /\ pc' = "loop" /\ LoopGuard(attempt', config)) =>
        /\ nSleeps' = nSleeps + 1
        /\ \E j \in Jitters :
             LET b == Min(Pow2(attempt) * 1000 + j, 30000)
             IN IF lastTag' = Some(429)
                THEN \E ra \in RetryAfterValues : lastSleep' = Some(Min(b, ra))
                ELSE lastSleep' = Some(b)
        /\ Get(lastSleep') <= 30000 ]_vars

----------------------------------------------------------------------------
(* Properties of AidenStream *)

\* C8 (as stated): a consumption call made after another call on the same
\* stream has finished throws the 'already consumed' error to its caller,
\* whatever its mode.
C8_SecondConsumptionThrows ==
  \A c \in DOMAIN cons :
    (cons[c].pc = "done" /\ cons[c].startedAfter) =>
      cons[c].outcome = Some(Throw(AlreadyConsumed))

\* C8 (amended): a consumption call made after another call has finished never
\* acquires the reader and receives no event; direct iteration, text() and
\* subscribe() without an error callback throw the 'already consumed' error to
\* the caller; subscribe() with an error callback hands that error to the
\* callback, once, and returns undefined when the callback returns; when the
\* callback throws, subscribe() throws what the callback threw.
C8_SecondConsumptionFails ==
  \A c \in DOMAIN cons :
    (cons[c].pc = "done" /\ cons[c].startedAfter) =>
      /\ ~cons[c].everHeld
      /\ cons[c].got = <<>>
      /\ IF "onError" \in Callbacks(cons[c].mode)
         THEN /\ cons[c].onErrorCalls = <<AlreadyConsumed>>
              /\ cons[c].outcome = Some(IF cons[c].onErrorThrew THEN Throw(HandlerError)
                                         ELSE Return(Undefined))
         ELSE cons[c].outcome = Some(Throw(AlreadyConsumed))

\* a first call has received the events of the body and finished; a second
\* call, subscribe() with an error callback, has been made since and is over,
\* its callback having returned
C8_Witness ==
  \E c, d \in DOMAIN cons :
    /\ c # d
    /\ cons[d].pc = "done" /\ cons[d].everHeld /\ cons[d].got # <<>>
    /\ Get(cons[d].outcome).type = "return"
    /\ cons[c].pc = "done" /\ cons[c].startedAfter
    /\ cons[c].mode = "subscribeOnError"
    /\ cons[c].onErrorCalls = <<AlreadyConsumed>>
    /\ ~cons[c].onErrorThrew

\* C9: at most one call ever holds the reader of the body, and the holder is
\* the one the body is locked by; a call made while another call is in
\* progress (made and not over: reading, handing over events, closing its
\* generator, or about to return or to throw) fails with the 'already
\* consumed' error (the error its iteration throws, and the call itself once
\* it is over, unless it is a subscribe() with an error callback), never
\* acquires the reader and receives no event.
C9_OneReaderHolder ==
  /\ Cardinality({c \in DOMAIN cons : cons[c].everHeld}) <= 1
  /\ \A c \in DOMAIN cons : cons[c].holdsReader <=> rbody.lockedBy = c
  /\ \A c \in DOMAIN cons :
       (cons[c].pc # "idle" /\ cons[c].startedDuring) =>
         /\ cons[c].pc \in {"throwing", "done"}
         /\ cons[c].iterError = Some(AlreadyConsumed)
         /\ ~cons[c].everHeld
         /\ cons[c].got = <<>>
         /\ (cons[c].pc = "done" /\ "onError" \notin Callbacks(cons[c].mode)) =>
              cons[c].outcome = Some(Throw(AlreadyConsumed))

\* a second call has failed while the first, holding the reader, still reads
C9_Witness ==
  \E c, d \in DOMAIN cons :
    /\ c # d
    /\ cons[d].pc \in {"reading", "yielding"} /\ cons[d].holdsReader /\ cons[d].got # <<>>
    /\ cons[c].pc = "done" /\ cons[c].startedDuring
    /\ cons[c].iterError = Some(AlreadyConsumed)

\* the records that carry a data payload: a data line with something in it
CarriesData(kind) == kind \notin {"empty", "blank", "comment", "emptyData", "eventOnly"}

\* the records whose payload is a Stream Event with type and timestamp
FullyFormed(kind) ==
  kind \in {"connected", "deltaHello", "deltaWorld", "complete", "thinking", "analysis",
            "decision", "pdca", "thinkingComplete", "error"}

\* the Stream Event the server wrote in a fully formed record
AsSent(kind) ==
  LET sent0 == JSONValue(RecordText(kind)[3])
  IN Event(Get(sent0.type), sent0.phase, sent0.data, sent0.timestamp, sent0.visibility)

\* an iteration whose generator has run to the end of the body: it ended
\* normally, and neither by a break nor on an exception of the loop body
RanToEnd(r) ==
  r.pc \in {"returning", "done"} /\ r.atEnd /\ ~r.broke /\ ~IsDefined(r.iterError)

\* C10: the events an iteration has received are, in order, one for each of
\* the first data-carrying records of the body, a fully formed record giving
\* the event the server wrote; once the iteration has run to the end of the
\* body (none of its bytes having been discarded by abort()) there is one
\* event for every data-carrying record.
C10_OneEventPerRecord ==
  LET r == cons[1]
      carrying == SelectSeq(script.records, CarriesData)
  IN (DOMAIN cons = {1} /\ r.mode = "iterate") =>
       /\ Len(r.got) <= Len(carrying)
       /\ \A i \in 1..Len(r.got) :
            FullyFormed(carrying[i]) => r.got[i] = AsSent(carrying[i])
       /\ (RanToEnd(r) /\ ~rbody.cancelled) => Len(r.got) = Len(carrying)

\* the records connected, delta 'Hello', delta ' World', complete have been
\* iterated to the end: 4 events, in that order
C10_Witness ==
  /\ DOMAIN cons = {1}
  /\ script.records = <<"connected", "deltaHello", "deltaWorld", "complete">>
  /\ cons[1].pc = "done" /\ ~cons[1].broke
  /\ cons[1].outcome = Some(Return(Undefined))
  /\ Len(cons[1].got) = 4
  /\ [i \in 1..4 |-> cons[1].got[i].type] = <<"connected", "delta", "delta", "complete">>
  /\ cons[1].got[2].data.content = Some(<<"Hello">>)
  /\ cons[1].got[3].data.content = Some(<<" World">>)

\* the text of the delta events among events, in order
RECURSIVE DeltaText(_)
DeltaText(events) ==
  IF events = <<>> THEN <<>>
  ELSE (IF Head(events).type = "delta" THEN Get(Head(events).data.content) ELSE <<>>)
       \o DeltaText(Tail(events))

\* C11: text() accumulates the content of the delta events it has received,
\* in order, and nothing for events of other types; when it returns it
\* returns the concatenation of the content of the delta events received,
\* which are one event per data-carrying record of the body when none of its
\* bytes was discarded by abort().
C11_TextConcatenatesDeltas ==
  LET r == cons[1]
  IN (DOMAIN cons = {1} /\ r.mode = "text") =>
       /\ r.text = DeltaText(r.got)
       /\ (r.pc = "done" /\ Get(r.outcome).type = "return") =>
            /\ Get(r.outcome).value = DeltaText(r.got)
            /\ ~rbody.cancelled =>
                 Len(r.got) = Len(SelectSeq(script.records, CarriesData))

\* deltas 'Hello', ' ', 'World' have been collected by text()
C11_Witness ==
  /\ DOMAIN cons = {1}
  /\ cons[1].mode = "text"
  /\ script.records = <<"deltaHello1", "deltaSpace", "deltaWorldOnly">>
  /\ cons[1].pc = "done"
  /\ cons[1].outcome = Some(Return(<<"Hello", " ", "World">>))

IsSubscribe(r) == r.mode \in {"subscribe", "subscribeOnError", "subscribeTyped"}

\* the payload of the last complete event among events, if any
RECURSIVE LastComplete(_)
LastComplete(events) ==
  IF events = <<>> THEN Undefined
  ELSE IF events[Len(events)].type = "complete" THEN Some(events[Len(events)].data)
  ELSE LastComplete(SubSeq(events, 1, Len(events) - 1))

\* the events received, less one on which onEvent threw
Dispatched(r) ==
  IF r.failedIn = Some("onEvent") THEN SubSeq(r.got, 1, Len(r.got) - 1) ELSE r.got

\* the calls subscribe() is to make for one event, of the callbacks given:
\* onEvent, then the callback of the event's type
CallsFor(ev, given) ==
  LET typed == IF ev.type = "delta" THEN <<Called("onDelta", ev.data.content)>>
               ELSE IF ev.type = "complete" THEN <<Called("onComplete", ev.data)>>
               ELSE IF ev.type \in {"thinking_start", "analysis_result", "decision_trace",
                                    "pdca_step", "thinking_complete"}
               THEN <<Called("onThinking", ev)>>
               ELSE <<>>
  IN SelectSeq(<<Called("onEvent", ev)>> \o typed, LAMBDA call : call.cb \in given)

RECURSIVE CallsForAll(_, _)
CallsForAll(events, given) ==
  IF events = <<>> THEN <<>>
  ELSE CallsFor(Head(events), given) \o CallsForAll(Tail(events), given)

\* C12: the calls subscribe() has made of onEvent, onDelta, onComplete and
\* onThinking are, in order, those for the events received, each callback
\* being called when it is given: for every event onEvent with the event,
\* then onDelta with the content of a delta event, onComplete with the payload
\* of a complete event, onThinking with an event of one of the five thinking
\* types, and nothing for other types; and subscribe() resolves to the
\* payload of the last complete event, or to undefined.  (An onEvent that
\* throws ends the dispatch of its event.)
C12_SubscribeDispatch ==
  LET r == cons[1]
      given == Callbacks(r.mode)
      made == SelectSeq(r.log, LAMBDA call :
                call.cb \in {"onEvent", "onDelta", "onComplete", "onThinking"})
  IN (DOMAIN cons = {1} /\ IsSubscribe(r)) =>
       /\ made = IF r.failedIn = Some("onEvent")
                 THEN CallsForAll(Dispatched(r), given)
                      \o <<Called("onEvent", r.got[Len(r.got)])>>
                 ELSE CallsForAll(r.got, given)
       /\ (r.pc = "done" /\ Get(r.outcome).type = "return") =>
            Get(r.outcome).value = LastComplete(Dispatched(r))

\* the body of the test 'should work with callbacks via .subscribe()' has
\* been dispatched to the callbacks of the test: onThinking once, onDelta
\* once with 'Hi', onComplete with { sessionId: 's-1' }, which is returned
C12_Witness ==
  /\ DOMAIN cons = {1}
  /\ cons[1].mode = "subscribeTyped"
  /\ script.records = <<"thinkingStart1", "deltaHi", "complete3">>
  /\ cons[1].pc = "done"
  /\ [i \in 1..Len(cons[1].log) |-> cons[1].log[i].cb] =
       <<"onThinking", "onDelta", "onComplete">>
  /\ cons[1].log[2].arg = Some(<<"Hi">>)
  /\ Get(cons[1].outcome).type = "return"
  /\ Get(Get(cons[1].outcome).value).sessionId = Some("s-1")

\* the calls of onError made with the error e
OnErrorCallsWith(log, e) == SelectSeq(log, LAMBDA c : c.cb = "onError" /\ c.arg = e)

\* C13 (as stated): when the loop of subscribe() is ended by an exception (of
\* the iteration or of a callback): without an error callback subscribe()
\* throws it to its caller; with an error callback it is handed to the
\* callback exactly once, as the last call, and subscribe() resolves with the
\* payload of the last complete event dispatched, or undefined.
C13_SubscribeErrorRouting ==
  LET r == cons[1]
  IN (DOMAIN cons = {1} /\ IsSubscribe(r) /\ r.pc = "done" /\ IsDefined(r.iterError)) =>
       IF "onError" \notin Callbacks(r.mode)
       THEN /\ r.outcome = Some(Throw(Get(r.iterError)))
            /\ \A i \in 1..Len(r.log) : r.log[i].cb # "onError"
       ELSE /\ r.outcome = Some(Return(LastComplete(Dispatched(r))))
            /\ Len(OnErrorCallsWith(r.log, Get(r.iterError))) = 1
            /\ r.log[Len(r.log)] = Called("onError", Get(r.iterError))

\* C13 (amended): when the loop of subscribe() is ended by an exception (of
\* the iteration or of a callback): without an error callback subscribe()
\* throws it to its caller; with an error callback it is handed to the
\* callback exactly once, as the last call; when the callback returns,
\* subscribe() resolves with the payload of the last complete event
\* dispatched, or undefined; when the callback throws, subscribe() throws
\* what the callback threw.
C13_SubscribeErrorRoutingAmended ==
  LET r == cons[1]
  IN (DOMAIN cons = {1} /\ IsSubscribe(r) /\ r.pc = "done" /\ IsDefined(r.iterError)) =>
       IF "onError" \notin Callbacks(r.mode)
       THEN /\ r.outcome = Some(Throw(Get(r.iterError)))
            /\ \A i \in 1..Len(r.log) : r.log[i].cb # "onError"
       ELSE /\ r.outcome = Some(IF r.onErrorThrew THEN Throw(HandlerError)
                                 ELSE Return(LastComplete(Dispatched(r))))
            /\ Len(OnErrorCallsWith(r.log, Get(r.iterError))) = 1
            /\ r.log[Len(r.log)] = Called("onError", Get(r.iterError))

\* a read has failed after a complete event was dispatched, with an error
\* callback registered: the callback was handed the error and returned
C13_Witness ==
  /\ DOMAIN cons = {1}
  /\ cons[1].mode = "subscribeOnError"
  /\ cons[1].pc = "done"
  /\ cons[1].iterError = Some(ReadError)
  /\ cons[1].got # <<>>
  /\ IsDefined(cons[1].completeData)
  /\ cons[1].outcome = Some(Return(cons[1].completeData))
  /\ cons[1].onErrorCalls = <<ReadError>>
  /\ ~cons[1].onErrorThrew

\* C14: a body made only of records without a data payload (empty or blank
\* records, records of comment, id:, retry: or event: lines, a data: line
\* with nothing after it) gives no event and no error: the iteration never has
\* an event to yield, so that no loop body runs, and ends normally, unless a
\* read fails.
C14_NoDataNoEvent ==
  LET r == cons[1]
  IN (DOMAIN cons = {1} /\ \A i \in 1..Len(script.records) : ~CarriesData(script.records[i])) =>
       /\ r.got = <<>>
       /\ r.queue = <<>>
       /\ r.pc \notin {"yielding", "closing"}
       /\ r.pc = "throwing" => r.iterError = Some(ReadError)
       /\ r.pc = "done" => r.outcome \in {Some(Return(Undefined)), Some(Throw(ReadError))}

\* a body of a comment record and an event: record has been iterated to its
\* end without an event
C14_Witness ==
  /\ DOMAIN cons = {1}
  /\ script.records = <<"comment", "eventOnly">>
  /\ cons[1].pc = "done"
  /\ cons[1].everHeld
  /\ cons[1].got = <<>>
  /\ cons[1].outcome = Some(Return(Undefined))

\* C15: no call whose iteration is over holds the reader lock, however the
\* iteration ended (end of the body, break, failed read, exception of the loop
\* body or of a callback): the lock is released when the generator ends,
\* before the call is over; with no iteration in progress the body is unlocked.
C15_LockReleased ==
  /\ \A c \in DOMAIN cons :
       cons[c].pc \in {"returning", "throwing", "done"} => rbody.lockedBy # c
  /\ (\A c \in DOMAIN cons : cons[c].pc \notin {"reading", "yielding", "closing"}) =>
       rbody.lockedBy = 0

\* a call that had acquired the reader and received events was left by an
\* exception of a handler: its generator has run its finally clause, the body
\* is unlocked and the call is not over yet
C15_Witness ==
  \E c \in DOMAIN cons :
    /\ cons[c].pc = "throwing"
    /\ cons[c].everHeld
    /\ cons[c].got # <<>>
    /\ IsDefined(cons[c].failedIn)
    /\ rbody.lockedBy = 0

----------------------------------------------------------------------------
(* Properties of buildUrl *)

\* the pairs of the URL built whose name is key
PairsOf(key) == SelectSeq(Get(urlOut).value.search, LAMBDA q : q[1] = key)

\* the entries of the query object whose value is neither undefined nor null
SetEntries ==
  IF IsDefined(urlIn.query)
  THEN SelectSeq(Get(urlIn.query), LAMBDA e : e.value.t \notin {"undefined", "null"})
  ELSE <<>>

\* C16: the query string of a URL that buildUrl has built has exactly one pair for each query
\* entry whose value is neither undefined nor null, in the order of the
\* entries, its value being the value coerced to a string (as the URL
\* serializer writes it), and nothing else: no pair and no name for an entry
\* whose value is undefined or null.
C16_QueryPairs ==
  (IsDefined(urlOut) /\ Get(urlOut).type = "return") =>
    LET search == Get(urlOut).value.search
    IN /\ Len(search) = Len(SetEntries)
       /\ \A i \in 1..Len(search) :
            /\ search[i][1] = SetEntries[i].key
            /\ LET v == SetEntries[i].value
               IN search[i][2] =
                    CASE v = QueryValue("number", 0, FALSE, "") -> "0"
                      [] v = QueryValue("number", 1, FALSE, "") -> "1"
                      [] v = QueryValue("number", 10, FALSE, "") -> "10"
                      [] v = QueryValue("boolean", 0, FALSE, "") -> "false"
                      [] v = QueryValue("string", 0, FALSE, "a b") -> "a+b"
                      [] OTHER -> v.s
       /\ IsDefined(urlIn.query) =>
            \A i \in 1..Len(Get(urlIn.query)) :
              LET e == Get(urlIn.query)[i]
              IN Len(PairsOf(e.key)) =
                   (IF e.value.t \in {"undefined", "null"} THEN 0 ELSE 1)
       /\ Get(urlOut).value.href = "https://api.test.com/api/v1/notebooks"

\* {page: 1, search: undefined} has given page=1 and nothing of search
C16_Witness ==
  /\ IsDefined(urlOut)
  /\ urlIn.query = Some(<< [key |-> "page", value |-> QueryValue("number", 1, FALSE, "")],
                           [key |-> "search", value |-> QueryValue("undefined", 0, FALSE, "")] >>)
  /\ Get(urlOut).type = "return"
  /\ Get(urlOut).value.search = << <<"page", "1">> >>


\* a consumption call that acquired the reader and whose iteration was ended
\* by a rejected reader.read(), not by the handling of an event
ReadFailed(r) ==
  /\ r.pc = "done"
  /\ r.everHeld
  /\ IsDefined(r.iterError)
  /\ ~IsDefined(r.failedIn)

\* C21: a read failure of the byte source in the middle of a stream reaches
\* the consumption call as a ConnectionError: direct iteration and text()
\* throw it, subscribe() hands it to the error callback when there is one;
\* the read is not retried (the call is over and no longer holds the reader).
C21_ReadFailureIsConnectionError ==
  \A c \in DOMAIN cons :
    LET r == cons[c]
    IN ReadFailed(r) =>
         /\ Get(r.iterError).name = "ConnectionError"
         /\ ~r.holdsReader
         /\ IF "onError" \in Callbacks(r.mode)
            THEN r.onErrorCalls # <<>> /\ r.onErrorCalls[Len(r.onErrorCalls)] = Get(r.iterError)
            ELSE r.outcome = Some(Throw(Get(r.iterError)))

\* the records whose payload JSON-decodes to a value that is not a Stream
\* Event with type and timestamp: an object (with or without a type), a
\* boolean, null
DecodesToOther(kind) == kind \in {"hinted", "typeOnly", "true", "null"}

\* the data payload of a record, as text
PayloadOf(kind) ==
  ScanLines(SplitLines(Decode(<<>>, RecordText(kind), <<>>).text, <<>>), <<>>, <<>>).data

\* the event: hint of a record, or "message"
HintOf(kind) == IF kind = "hinted" THEN "usage" ELSE "message"

\* C22: for an iteration run to the end of the body, a record whose payload
\* JSON-decodes but lacks type or timestamp gives the wrapping event (type:
\* the event: hint or "message", phase "do", data: the decoded value,
\* visibility "prominent"); a record whose payload is not JSON gives a delta
\* event whose content is the raw payload.
C22_WrapDecodedPayload ==
  LET r == cons[1]
      carrying == SelectSeq(script.records, CarriesData)
  IN (/\ DOMAIN cons = {1} /\ r.mode = "iterate" /\ r.pc = "done" /\ ~r.broke
      /\ r.outcome = Some(Return(Undefined)) /\ Len(r.got) = Len(carrying)) =>
       \A i \in 1..Len(carrying) :
         LET kind == carrying[i]
             ev == r.got[i]
         IN ~FullyFormed(kind) =>
              IF DecodesToOther(kind)
              THEN /\ ev.type = HintOf(kind)
                   /\ ev.phase = Some("do")
                   /\ ev.data = JSONValue(Trim(PayloadOf(kind))[1]).self
                   /\ ev.visibility = Some("prominent")
              ELSE /\ ev.type = "delta"
                   /\ ev.data.content = Some(PayloadOf(kind))

\* C23: every event an iteration has received has a type of StreamEventType,
\* a phase of PDCAPhase and a visibility of ThinkingEventVisibility, whatever
\* the body: fully formed events, JSON payloads the parser wraps, plain text.
C23_EventsAreWellTyped ==
  \A c \in DOMAIN cons :
    \A i \in 1..Len(cons[c].got) :
      LET ev == cons[c].got[i]
      IN /\ ev.type \in StreamEventType
         /\ IsDefined(ev.phase) /\ Get(ev.phase) \in PDCAPhase
         /\ IsDefined(ev.visibility) /\ Get(ev.visibility) \in ThinkingEventVisibility

\* C24: when the body ends with a record that is not followed by the
\* blank-line delimiter, an iteration run to the end of the body (none of its
\* bytes having been discarded by abort()) has parsed that record
\* by the rules of a delimited one: if it carries data its event is the last
\* one received, after one event for each data-carrying record before it; if
\* it is blank or carries no data nothing is received for it.
C24_FinalRemainderParsed ==
  LET r == cons[1]
      recs == script.records
  IN (/\ DOMAIN cons = {1} /\ r.mode = "iterate" /\ recs # <<>> /\ ~script.terminated
      /\ RanToEnd(r) /\ ~rbody.cancelled) =>
       LET before == SelectSeq(SubSeq(recs, 1, Len(recs) - 1), CarriesData)
           text == Trim(Decode(<<>>, RecordText(recs[Len(recs)]), <<>>).text)
           ev == IF text = <<>> THEN Undefined ELSE parseSingleEvent(text)
       IN /\ IF IsDefined(ev)
             THEN /\ Len(r.got) = Len(before) + 1
                  /\ r.got[Len(r.got)] = Get(ev)
             ELSE Len(r.got) = Len(before)

\* the body `data: {delta 'Hello'}\n\ndata: hi` has been iterated to the end:
\* the second event is the delta of the undelimited text record
C24_Witness ==
  /\ DOMAIN cons = {1}
  /\ script = [records |-> <<"deltaHello", "text">>, terminated |-> FALSE]
  /\ cons[1].pc = "done" /\ ~cons[1].broke
  /\ cons[1].outcome = Some(Return(Undefined))
  /\ Len(cons[1].got) = 2
  /\ cons[1].got[2].type = "delta"
  /\ cons[1].got[2].data.content = Some(<<"hi">>)

\* the events of the body when it arrives in one chunk: one read, then the end
OneChunk ==
  LET dec == Decode(<<>>, Cut(Wire(script.records, script.terminated)), <<>>)
      events == parseEvents(Concat(<<>>, dec.text))
  IN events.parsed \o ParseRemainder(events.remaining)

\* C27: however the body is cut into chunks (between two symbols or inside
\* one: inside the name of a field, inside a payload, between the two line
\* feeds of a delimiter, between the two bytes of a character), the events an
\* iteration has received are, by type and data, the first events the body
\* gives when it arrives in one chunk, and all of them once the iteration has
\* run to the end of the body (none of its bytes having been discarded by
\* abort()).
C27_ChunkingIndependence ==
  LET r == cons[1]
      all == OneChunk
  IN (DOMAIN cons = {1} /\ r.mode = "iterate") =>
       /\ Len(r.got) <= Len(all)
       /\ \A i \in 1..Len(r.got) :
            [type |-> r.got[i].type, data |-> r.got[i].data] =
              [type |-> all[i].type, data |-> all[i].data]
       /\ (RanToEnd(r) /\ ~rbody.cancelled) => Len(r.got) = Len(all)

\* the body `data: <e acute>\n\ndata: {delta 'Hello'}\n\n`: the event of the
\* first record has been received and a chunk has ended inside the payload of
\* the second record
C27_Witness ==
  /\ DOMAIN cons = {1}
  /\ script = [records |-> <<"accent", "deltaHello">>, terminated |-> TRUE]
  /\ Len(cons[1].got) = 1
  /\ cons[1].got[1].data.content = Some(<<"e'">>)
  /\ cons[1].buffer = <<"data:", SP, "{delta:Hello}...">>
  /\ rbody.remaining = <<"...{delta:Hello}", NL, NL>>


\* C29: the duration derived from the Retry-After header of a 429 response is
\* never negative: the argument of every sleep() is >= 0 and so is the
\* retryAfter field of a RateLimitError the call throws.
C29_RetryAfterNonNegative ==
  /\ IsDefined(lastSleep) => Get(lastSleep) >= 0
  /\ (Thrown /\ ThrownError.name = "RateLimitError") =>
       (IsDefined(ThrownError.retryAfter) /\ Get(ThrownError.retryAfter) >= 0)

\* the call of a wrapper has returned and its call of the engine succeeded on
\* the first try
FirstTrySuccess ==
  /\ res.pc = "done"
  /\ res.outcome = "return"
  /\ attempt = 0
  /\ nSleeps = 0

\* C26: a wrapper never calls the transport function itself: every request
\* goes through its one call of request, requestPaginated or requestRaw, so
\* a wrapper call that succeeds on the first try has made exactly one HTTP
\* request.
C26_OneRequestThroughEngine ==
  res.method \in Wrappers =>
    /\ res.direct = 0
    /\ FirstTrySuccess => calls = 1

\* C28: every request of _stream and _streamGet carries the header
\* Accept: text/event-stream, whatever request options the caller passes.
C28_StreamAcceptHeader ==
  (res.method \in {"_stream", "_streamGet"} /\ IsDefined(sent)) =>
    Get(sent)["Accept"] = "text/event-stream"

\* the value of the entry of a query object under a key, undefined without one
ValueOf(query, key) ==
  IF \E i \in 1..Len(query) : query[i].key = key
  THEN query[CHOOSE i \in 1..Len(query) : query[i].key = key].value
  ELSE QueryValue("undefined", 0, FALSE, "")

\* C25: every page request of _listAll, the first and the later ones, carries
\* the filters the caller set, the same limit (the caller's, or 50) and the
\* number of its page; apart from the page number the requests are the same;
\* and the URL handed to the transport has the pairs of the request, in order.
C25_SameFiltersEveryPage ==
  res.method = "_listAll" =>
    /\ (IsDefined(sentTo) /\ ~(res.pc = "engine" /\ pc = "loop" /\ attempt = 0)) =>
         LET q == res.requests[Len(res.requests)]
         IN Get(sentTo).search = [k \in 1..Len(q) |-> <<q[k].key, StringOf(q[k].value)>>]
    /\ \A i \in 1..Len(res.requests) :
      LET q == res.requests[i]
          given == ValueOf(res.params, "limit")
      IN /\ ValueOf(q, "page") = QueryValue("number", i, FALSE, "")
         /\ ValueOf(q, "limit") = IF given.t \in {"undefined", "null"}
                                  THEN QueryValue("number", 50, FALSE, "") ELSE given
         /\ \A j \in 1..Len(res.params) :
              LET e == res.params[j]
              IN (e.key \notin {"page", "limit"} /\ e.value.t \notin {"undefined", "null"})
                   => ValueOf(q, e.key) = e.value
         /\ Len(q) = Len(res.requests[1])
         /\ \A k \in 1..Len(q) : q[k].key = "page" \/ q[k] = res.requests[1][k]

\* _listAll(path, { limit: 10, search: 'test' }) has asked for its second page
\* and the request has been sent
C25_Witness ==
  /\ res.method = "_listAll"
  /\ Len(res.params) = 2
  /\ Len(res.requests) >= 2
  /\ calls = 2
  /\ sentTo = Some([href |-> "https://api.test.com/test",
                    search |-> << <<"limit", "10">>, <<"search", "test">>, <<"page", "2">> >>])
  /\ ValueOf(res.requests[2], "search") = QueryValue("string", 0, FALSE, "test")
  /\ ValueOf(res.requests[2], "limit") = QueryValue("number", 10, FALSE, "")
  /\ ValueOf(res.requests[2], "page") = QueryValue("number", 2, FALSE, "")

\* a page after which _listAll is to stop: no pagination meta, or
\* totalPages <= its number
Terminal(received, number) ==
  ~IsDefined(received.pagination) \/ Get(received.pagination) <= number

\* the requests and the yields of the pages received, page after page
RECURSIVE PageByPage(_, _)
PageByPage(responses, number) ==
  IF responses = <<>> THEN <<>>
  ELSE << [kind |-> "request", page |-> number, item |-> 0] >>
       \o [j \in 1..Head(responses).n |-> [kind |-> "yield", page |-> number, item |-> j]]
       \o PageByPage(Tail(responses), number + 1)

\* what C30 says of one state of an iteration over _listAll
ListAllInOrder ==
  LET k == Len(res.responses)
      whole == PageByPage(res.responses, 1)
      expected == IF Len(res.requests) > k
                  THEN Append(whole, [kind |-> "request", page |-> k + 1, item |-> 0])
                  ELSE whole
  IN res.method = "_listAll" =>
       /\ \A i \in 1..Len(res.requests) :
            ValueOf(res.requests[i], "page") = QueryValue("number", i, FALSE, "")
       /\ \A i \in 1..(Len(res.requests) - 1) : i <= k /\ ~Terminal(res.responses[i], i)
       /\ Len(res.trace) <= Len(expected)
       /\ res.trace = SubSeq(expected, 1, Len(res.trace))
       /\ res.pc = "fetch" => res.trace = whole
       /\ (res.pc = "done" /\ res.outcome = "return" /\ ~res.broke) =>
            /\ res.trace = whole
            /\ k >= 1 /\ Terminal(res.responses[k], k)
            /\ \A P \in 1..(k + 1) :
                 (\A i \in 1..k : res.responses[i].pagination = Some(P)) => k = P

\* C30: _listAll requests the pages 1, 2, ... in order, each once, yields
\* every item of a page before it requests the next one, makes no request
\* after a page without pagination meta or with totalPages <= its number,
\* so that with a constant totalPages = P >= 1 it requests exactly the pages
\* 1..P; and the iteration terminates.
C30_ListAllTerminates == []ListAllInOrder /\ <>(res.pc = "done")

\* the server has reported totalPages = 3 on three pages of two items each and
\* the iteration is over
C30_Witness ==
  /\ res.method = "_listAll"
  /\ res.pc = "done" /\ res.outcome = "return" /\ ~res.broke
  /\ res.responses = [i \in 1..3 |-> [n |-> 2, meta |-> "present", pagination |-> Some(3)]]
  /\ Len(res.trace) = 9
============================================================================
